---- MODULE Spec2Model ----
(***************************************************************************)
(* A model of the wikt block store (src/src/blockstore.rs), the XML page   *)
(* recognizer (src/src/xmldump.rs) and the ingestion driver of             *)
(* src/src/main.rs (StoreAction::Make / Get / Query), and of the section   *)
(* splitter split_by_section of src/src/main.rs.                           *)
(*                                                                         *)
(* Byte strings are sequences of numbers 0..255, text is a sequence of     *)
(* character codes.  Option<T> is <<>> (None) or <<x>> (Some(x)).          *)
(* Results of fallible operations are records with a field kind that is    *)
(* "Ok", "Err" (an error value returned to the caller) or "Panic" (the     *)
(* program aborts).                                                        *)
(***************************************************************************)
EXTENDS Integers, Sequences, FiniteSets, TLC

VARIABLES
    pc,         \* position of the program under the current specification
    xml,        \* the XML event reader: what part of the document comes next
    fed,        \* number of <page> elements the reader has delivered so far
    current,    \* main: `current`, the recognizer state (Page)
    n,          \* main: `n`, the running count of entries
    block,      \* the in-memory Block being filled
    dict_en,    \* Store.dict_en : Option<EncoderDictionary>
    dict_de,    \* Store.dict_de : Option<DecoderDictionary>
    dictFile,   \* the file zst.dictionary of the store directory (Option<bytes>)
    files,      \* the block files of the store directory: stem |-> content
    wire,       \* Option<bytes>: the bytes produced by Block::finish
    loaded,     \* Option<Block>: the block last parsed / read back
    out,        \* the result of the last read operation or pure function
    refIn,      \* the Ref under test (components as 16-bit limb numerals)
    text,       \* the text handed to split_by_section
    workers,    \* Query: per-worker locals of the parallel read_block calls
    appended,   \* history: the (title, body) pairs added to `block`
    ingested,   \* history: every (title, body) pair passed to Block::add
    emitted,    \* history: the pages the reader delivered completely
    trained,    \* history: how many times a dictionary was trained
    commits     \* history: how many times Store::commit was called

vars == <<pc, xml, fed, current, n, block, dict_en, dict_de, dictFile, files,
          wire, loaded, out, refIn, text, workers, appended, ingested,
          emitted, trained, commits>>

(***************************************************************************)
(* Bounds of the model.                                                    *)
(***************************************************************************)
MaxAdd == 3         \* entries appended to one block in SpecBlock
MaxFrags == 2       \* character/CDATA events inside one <title> or <text>
CommitEvery == 2    \* stands for the 10000 of main.rs:138 (entries per block)
MaxLines == 3       \* lines of a text handed to split_by_section
MaxDocs == 3        \* <page> elements of a stream in SpecPages
MaxItems == 2       \* <title> and <text> elements inside one such <page>
MaxBlock == 2       \* entries appended to one block in SpecStore
MaxCommits == 2     \* calls of Store::commit in SpecStore

(***************************************************************************)
(* Generic helpers.                                                        *)
(***************************************************************************)
NoneOpt == << >>
Some(x) == << x >>
IsSome(o) == Len(o) = 1
Unwrap(o) == o[1]

Ok(v) == [kind |-> "Ok", val |-> v]
Err(e) == [kind |-> "Err", err |-> e]
Panic(e) == [kind |-> "Panic", err |-> e]

\* s[a..b) with 0-based half-open bounds, as a Rust slice s[a..b]
Slice(s, a, b) == SubSeq(s, a + 1, b)

(***************************************************************************)
(* Little-endian integer encoding (deku endian = "little").                *)
(***************************************************************************)
RECURSIVE ToLE(_, _)
ToLE(v, k) == IF k = 0 THEN << >> ELSE <<v % 256>> \o ToLE(v \div 256, k - 1)

RECURSIVE FromLE(_)
FromLE(bs) == IF bs = << >> THEN 0 ELSE bs[1] + 256 * FromLE(Tail(bs))

(***************************************************************************)
(* deku's read of a Vec<u8> limited by a size in bits/bytes                *)
(* (bytes_read = ..., bits_read = ...): elements are read one at a time    *)
(* and the limit is tested after each element, so at least one element is  *)
(* read and the read ends only when exactly `size` bytes were consumed.    *)
(* A size of 0 therefore never ends the read successfully; the source      *)
(* works around this for body_len = 0 (blockstore.rs:176-184).             *)
(* Result: Ok([val, rest]) or Err.                                         *)
(***************************************************************************)
ReadSized(input, size) ==
    IF size >= 1 /\ Len(input) >= size
    THEN Ok([val |-> Slice(input, 0, size), rest |-> Slice(input, size, Len(input))])
    ELSE Err("Incomplete")

\* deku's read of a fixed-width little-endian unsigned integer of k bytes
ReadUint(input, k) ==
    IF Len(input) >= k
    THEN Ok([val |-> FromLE(Slice(input, 0, k)), rest |-> Slice(input, k, Len(input))])
    ELSE Err("Incomplete")

(***************************************************************************)
(* Ref with small components (as used by Block::entry and the store).      *)
(***************************************************************************)
RefNew(block_id, entry_id) == [block_id |-> block_id, entry_id |-> entry_id]
RefDefault == RefNew(0, 0)

(***************************************************************************)
(* Entry (blockstore.rs:201-234).                                          *)
(***************************************************************************)
EntryNew(title, body) ==
    [store_ref |-> RefDefault,
     title_len |-> Len(title),
     body_len  |-> Len(body),
     title     |-> title,
     body      |-> body]

\* Entry::to_bytes: the four encoded fields in order (store_ref is skipped)
EntryToBytes(e) ==
    ToLE(e.title_len, 4) \o ToLE(e.body_len, 4) \o e.title \o e.body

\* Entry::from_bytes: two u32 lengths, then the two size-limited vectors
EntryFromBytes(input) ==
    LET tl == ReadUint(input, 4) IN
    IF tl.kind # "Ok" THEN tl ELSE
    LET bl == ReadUint(tl.val.rest, 4) IN
    IF bl.kind # "Ok" THEN bl ELSE
    LET t == ReadSized(bl.val.rest, tl.val.val) IN
    IF t.kind # "Ok" THEN t ELSE
    LET b == ReadSized(t.val.rest, bl.val.val) IN
    IF b.kind # "Ok" THEN b ELSE
    Ok([store_ref |-> RefDefault,
        title_len |-> tl.val.val,
        body_len  |-> bl.val.val,
        title     |-> t.val.val,
        body      |-> b.val.val])

\* a continuation byte of UTF-8
IsCont(b) == b \in 128..191

\* how many bytes the well-formed UTF-8 sequence at the head of bs takes, or
\* 0 when bs does not start with one (no overlong forms, no surrogates,
\* nothing above U+10FFFF)
Utf8Head(bs) ==
    LET b1 == bs[1]
        has(k) == Len(bs) >= k
    IN  IF b1 < 128 THEN 1
        ELSE IF b1 \in 194..223 /\ has(2) /\ IsCont(bs[2]) THEN 2
        ELSE IF b1 \in 224..239 /\ has(3) /\ IsCont(bs[3])
                /\ (IF b1 = 224 THEN bs[2] \in 160..191
                    ELSE IF b1 = 237 THEN bs[2] \in 128..159
                    ELSE IsCont(bs[2]))
             THEN 3
        ELSE IF b1 \in 240..244 /\ has(4) /\ IsCont(bs[3]) /\ IsCont(bs[4])
                /\ (IF b1 = 240 THEN bs[2] \in 144..191
                    ELSE IF b1 = 244 THEN bs[2] \in 128..143
                    ELSE IsCont(bs[2]))
             THEN 4
        ELSE 0

\* String::from_utf8(bytes) is Ok
RECURSIVE IsUtf8(_)
IsUtf8(bs) ==
    IF bs = << >> THEN TRUE
    ELSE LET k == Utf8Head(bs) IN
         IF k = 0 THEN FALSE ELSE IsUtf8(SubSeq(bs, k + 1, Len(bs)))

\* Entry::open: (title, body, ref); each String::from_utf8(..).unwrap()
\* panics on bytes that are not UTF-8
EntryOpen(e) ==
    IF ~IsUtf8(e.title) \/ ~IsUtf8(e.body)
    THEN Panic("called Result::unwrap() on an Err value: FromUtf8Error")
    ELSE Ok([title |-> e.title, body |-> e.body, ref |-> e.store_ref])

(***************************************************************************)
(* Block (blockstore.rs:129-199).                                          *)
(***************************************************************************)
BlockDefault == [id |-> 0, n |-> 0, starts |-> << >>, data |-> << >>]

\* the offset Block::add records for the entry it appends
AddStartAfter(b, bytes) == Len(b.data) + Len(bytes)
AddStart(b, bytes) == Len(b.data)

BlockAdd(b, e) ==
    LET bytes == EntryToBytes(e) IN
    [id     |-> b.id,
     n      |-> b.n + 1,
     starts |-> Append(b.starts, AddStart(b, bytes)),
     data   |-> b.data \o bytes]

RECURSIVE StartsToBytes(_)
StartsToBytes(ss) ==
    IF ss = << >> THEN << >> ELSE ToLE(ss[1], 8) \o StartsToBytes(Tail(ss))

\* the four reserved bytes written after n (pad_bytes_after = "4")
PadBytes == <<0, 0, 0, 0>>

\* Block::finish = to_bytes: n, padding, starts, data (id is skipped)
BlockFinish(b) == ToLE(b.n, 4) \o PadBytes \o StartsToBytes(b.starts) \o b.data

RECURSIVE ReadStarts(_, _)
ReadStarts(input, count) ==
    IF count = 0 THEN Ok([val |-> << >>, rest |-> input]) ELSE
    LET s == ReadUint(input, 8) IN
    IF s.kind # "Ok" THEN s ELSE
    LET more == ReadStarts(s.val.rest, count - 1) IN
    IF more.kind # "Ok" THEN more ELSE
    Ok([val |-> <<s.val.val>> \o more.val.val, rest |-> more.val.rest])

\* a reader that insists on zero reserved bytes: after any other value it
\* has nothing left to read
StrictPad(rest) ==
    IF Slice(rest, 0, 4) = <<0, 0, 0, 0>> THEN Slice(rest, 4, Len(rest))
    ELSE << >>

\* pad_bytes_after = "4" on read: the four bytes are skipped, not inspected
SkipPad(rest) == Slice(rest, 4, Len(rest))

\* Block::from_bytes: n, skip 4 bytes, n starts, then the rest as data
BlockFromBytes(input) ==
    LET cnt == ReadUint(input, 4) IN
    IF cnt.kind # "Ok" THEN cnt ELSE
    IF Len(cnt.val.rest) < 4 THEN Err("Incomplete") ELSE
    LET afterPad == SkipPad(cnt.val.rest) IN
    LET ss == ReadStarts(afterPad, cnt.val.val) IN
    IF ss.kind # "Ok" THEN ss ELSE
    LET d == ReadSized(ss.val.rest, Len(ss.val.rest)) IN
    IF d.kind # "Ok" THEN d ELSE
    Ok([id |-> 0, n |-> cnt.val.val, starts |-> ss.val.val, data |-> d.val.val])

\* a range check that is one short: the last index is refused
GetStartShort(starts, i) ==
    IF i + 1 < Len(starts) THEN Some(starts[i + 1]) ELSE NoneOpt

\* self.starts.get(n): the start of entry i, if there is one
GetStart(starts, i) ==
    IF i < Len(starts) THEN Some(starts[i + 1]) ELSE NoneOpt

\* Block::entry
BlockEntry(b, i) ==
    IF ~IsSome(GetStart(b.starts, i)) THEN Err("NoSuchEntry") ELSE
    LET start == Unwrap(GetStart(b.starts, i))
        store_ref == RefNew(b.id, i) IN
    IF start + 4 > Len(b.data) THEN Panic("slice index out of range") ELSE
    LET title_len == FromLE(Slice(b.data, start, start + 4)) IN
    IF start + 8 > Len(b.data) THEN Panic("slice index out of range") ELSE
    LET body_len == FromLE(Slice(b.data, start + 4, start + 8)) IN
    IF start + 8 + title_len + body_len > Len(b.data)
    THEN Panic("slice index out of range") ELSE
    LET entry_slice == Slice(b.data, start, start + 8 + title_len + body_len) IN
    IF body_len = 0
    THEN Ok([store_ref |-> store_ref,
             title_len |-> title_len,
             body_len  |-> body_len,
             title     |-> Slice(entry_slice, 8, Len(entry_slice)),
             body      |-> << >>])
    ELSE LET r == EntryFromBytes(entry_slice) IN
         IF r.kind # "Ok" THEN Err("CorruptEntry")
         ELSE Ok([r.val EXCEPT !.store_ref = store_ref])

(***************************************************************************)
(* Text helpers: character codes, decimal formatting and parsing.          *)
(***************************************************************************)
Space == <<32>>
Slash == <<47>>
Plus  == <<43>>

\* Vec<String>::join(" ")
RECURSIVE JoinNoSep(_)
JoinNoSep(ts) == IF ts = << >> THEN << >> ELSE ts[1] \o JoinNoSep(Tail(ts))

RECURSIVE Join(_)
Join(ts) ==
    IF ts = << >> THEN << >>
    ELSE IF Len(ts) = 1 THEN ts[1]
    ELSE ts[1] \o Space \o Join(Tail(ts))

\* format!("{}", v) of an unsigned integer
RECURSIVE FmtDec(_)
FmtDec(v) == IF v < 10 THEN <<48 + v>> ELSE FmtDec(v \div 10) \o <<48 + (v % 10)>>

IsDigit(c) == c >= 48 /\ c <= 57

\* str::parse::<u32>() on a stem the store wrote (values stay far below 2^32)
RECURSIVE ParseDigits(_, _)
ParseDigits(s, acc) ==
    IF s = << >> THEN Ok(acc)
    ELSE IF ~IsDigit(s[1]) THEN Err("InvalidDigit")
    ELSE ParseDigits(Tail(s), acc * 10 + (s[1] - 48))

ParseDec(s) ==
    IF s = << >> THEN Err("Empty")
    ELSE IF <<s[1]>> = Plus
         THEN (IF Len(s) = 1 THEN Err("InvalidDigit") ELSE ParseDigits(Tail(s), 0))
         ELSE ParseDigits(s, 0)

(***************************************************************************)
(* XML events (xml::reader::XmlEvent) and the recognizer (xmldump.rs).     *)
(***************************************************************************)
StartElement(name) == [type |-> "StartElement", name |-> name, s |-> << >>]
EndElement(name)   == [type |-> "EndElement", name |-> name, s |-> << >>]
Characters(s)      == [type |-> "Characters", name |-> "", s |-> s]
CData(s)           == [type |-> "CData", name |-> "", s |-> s]
OtherEvent(t)      == [type |-> t, name |-> "", s |-> << >>]

PageNone == [tag |-> "None", title |-> << >>, text |-> << >>]
PageOpen == [tag |-> "Open", title |-> << >>, text |-> << >>]
\* Title(ts): `title` holds the vector of fragments
PageTitle(ts) == [tag |-> "Title", title |-> ts, text |-> << >>]
\* Titled(title): `title` holds the joined string
PageTitled(t) == [tag |-> "Titled", title |-> t, text |-> << >>]
\* Text{title, text}: `text` holds the vector of fragments
PageText(t, xs) == [tag |-> "Text", title |-> t, text |-> xs]
\* Texted{title, text}: both are strings
PageTexted(t, x) == [tag |-> "Texted", title |-> t, text |-> x]

IsStart(ev, name) == ev.type = "StartElement" /\ ev.name = name
IsEnd(ev, name) == ev.type = "EndElement" /\ ev.name = name
IsChars(ev) == ev.type \in {"Characters", "CData"}

\* the state Texted leaves behind on the next event (xmldump.rs:56)
AfterTextedStay(page) == page
AfterTexted(page) == PageNone

\* a recognizer that keeps its state across </page>
AfterEndPageKeep(page) == page

\* </page> in any state not matched earlier (xmldump.rs:57)
AfterEndPage(page) == PageNone

\* the string of a finished <title> / <text> (xmldump.rs:29, 52)
Joined(ts) == Join(ts)

\* Page::parse: the match arms in source order
Parse(page, ev) ==
    IF page.tag = "None" /\ IsStart(ev, "page") THEN PageOpen
    ELSE IF page.tag = "Open" /\ IsStart(ev, "title") THEN PageTitle(<< >>)
    ELSE IF page.tag = "Title" /\ IsChars(ev) THEN PageTitle(Append(page.title, ev.s))
    ELSE IF page.tag = "Title" /\ IsEnd(ev, "title") THEN PageTitled(Joined(page.title))
    ELSE IF page.tag = "Titled" /\ IsStart(ev, "text") THEN PageText(page.title, << >>)
    ELSE IF page.tag = "Text" /\ IsChars(ev)
         THEN PageText(page.title, Append(page.text, ev.s))
    ELSE IF page.tag = "Text" /\ IsEnd(ev, "text")
         THEN PageTexted(page.title, Joined(page.text))
    ELSE IF page.tag = "Texted" THEN AfterTexted(page)
    ELSE IF IsEnd(ev, "page") THEN AfterEndPage(page)
    ELSE page

(***************************************************************************)
(* Dictionary training and compression (zstd), kept abstract: a trained    *)
(* dictionary is determined by the sample buffer and the sample sizes; a   *)
(* frame compressed with a dictionary decodes only with that dictionary.   *)
(***************************************************************************)
DictTargetSize == 150000
CompressionLevel == 3

\* the sample sizes Store::commit computes (blockstore.rs:25-31)
RECURSIVE ZipDiff(_, _)
ZipDiff(as, bs) ==
    IF as = << >> \/ bs = << >> THEN << >>
    ELSE <<bs[1] - as[1]>> \o ZipDiff(Tail(as), Tail(bs))

SampleSizes(b) == ZipDiff(<<0>> \o b.starts, b.starts)

\* zstd::dict::from_continuous(data, sample_sizes, max_size), when it succeeds
FromContinuous(data, sizes, max) == [samples |-> data, sizes |-> sizes, max |-> max]

EncoderDictionaryCopy(d, level) == [dict |-> d, level |-> level]
DecoderDictionaryCopy(d) == [dict |-> d]

\* Encoder::with_prepared_dictionary + write_all + finish
Compress(en, bytes) == [dict |-> en.dict, level |-> en.level, payload |-> bytes]

\* Decoder::with_prepared_dictionary + read_to_end
Decompress(de, file) ==
    IF file.dict = de.dict THEN Ok(file.payload) ELSE Err("IoError")

(***************************************************************************)
(* Store (blockstore.rs:11-127).  The directory is the pair (dictFile,     *)
(* files); a handle is the pair (dict_en, dict_de).                        *)
(***************************************************************************)
DotZst == <<46, 122, 115, 116>>

\* format!("{}.zst", n)
BlockFileName(tag) == FmtDec(tag) \o DotZst

\* Path::file_stem: the name without its last extension
RECURSIVE LastDot(_, _)
LastDot(name, i) ==
    IF i = 0 THEN 0 ELSE IF name[i] = 46 THEN i ELSE LastDot(name, i - 1)

FileStem(name) ==
    LET d == LastDot(name, Len(name)) IN
    IF d <= 1 THEN name ELSE SubSeq(name, 1, d - 1)

EndsWithZst(name) ==
    Len(name) >= 4 /\ SubSeq(name, Len(name) - 3, Len(name)) = DotZst

NoFiles == [name \in {} |-> << >>]

PutFile(fs, name, content) ==
    [x \in DOMAIN fs \cup {name} |-> IF x = name THEN content ELSE fs[x]]

\* whether Store::commit trains a dictionary (blockstore.rs:21-23)
AlwaysTrain(en) == TRUE
NeedsTraining(en) == ~IsSome(en)

\* the name of the block file Store::commit writes (blockstore.rs:41)
CommitFileName(tag) == BlockFileName(tag)

\* a commit that borrows the block without resetting it
TakenLeavesBorrowed(blk) == blk

\* mem::take(block) (blockstore.rs:19): what stays in the caller's block
TakenLeaves(blk) == BlockDefault

\* a commit that creates zst.dictionary before it learns that training failed
TrainFailureAfterCreate(en, de, df, fs, blk) ==
    [ok |-> FALSE, trainedNow |-> FALSE, dict_en |-> en, dict_de |-> de,
     dictFile |-> Some(FromContinuous(<< >>, << >>, DictTargetSize)),
     files |-> fs, block |-> TakenLeaves(blk)]

\* from_continuous(..)? returns the error (blockstore.rs:33): nothing has been
\* created or assigned yet, but the block was already taken
TrainFailure(en, de, df, fs, blk) ==
    [ok |-> FALSE, trainedNow |-> FALSE, dict_en |-> en, dict_de |-> de,
     dictFile |-> df, files |-> fs, block |-> TakenLeaves(blk)]

\* Store::commit(&mut block, n).  `trainOk` is the outcome of from_continuous.
\* The result carries the new directory and handle, and the caller's block
\* (mem::take leaves Block::default() behind whether or not commit succeeds).
Commit(en, de, df, fs, blk, tag, trainOk) ==
    IF NeedsTraining(en) /\ ~trainOk
    THEN TrainFailure(en, de, df, fs, blk)
    ELSE
    LET train     == NeedsTraining(en)
        dict_data == FromContinuous(blk.data, SampleSizes(blk), DictTargetSize)
        en2 == IF train THEN Some(EncoderDictionaryCopy(dict_data, CompressionLevel))
               ELSE en
        de2 == IF train THEN Some(DecoderDictionaryCopy(dict_data)) ELSE de
        df2 == IF train THEN Some(dict_data) ELSE df
    IN  [ok |-> TRUE, trainedNow |-> train, dict_en |-> en2, dict_de |-> de2,
         dictFile |-> df2,
         files |-> PutFile(fs, CommitFileName(tag), Compress(Unwrap(en2), BlockFinish(blk))),
         block |-> TakenLeaves(blk)]

\* Store::open: load zst.dictionary into dict_de
Open(df) ==
    IF IsSome(df) THEN Ok(Some(DecoderDictionaryCopy(Unwrap(df)))) ELSE Err("IoError")

\* Store::blocks: the files of the directory whose name ends with ".zst"
Blocks(fs) == {name \in DOMAIN fs : EndsWithZst(name)}

\* the outcome of reading through a handle whose dict_de is None
\* (blockstore.rs:103: self.dict_de.as_ref().unwrap())
NotOpenOutcome == Panic("called Option::unwrap() on a None value")

\* Store::read_block, first half (blockstore.rs:98-105): open the file and
\* decode it into the local buffer block_bytes
ReadBlockBytes(de, fs, name) ==
    IF name \notin DOMAIN fs THEN Err("IoError") ELSE
    IF ~IsSome(de) THEN NotOpenOutcome ELSE
    Decompress(Unwrap(de), fs[name])

\* Store::read_block, second half (blockstore.rs:107-116): the id from the
\* file stem, the block from the buffer
BlockOfBytes(name, bytes) ==
    LET id == ParseDec(FileStem(name)) IN
    IF id.kind # "Ok" THEN Err("BadFilename") ELSE
    LET b == BlockFromBytes(bytes) IN
    IF b.kind # "Ok" THEN Err("CorruptBlock") ELSE
    Ok([b.val EXCEPT !.id = id.val])

\* Store::read_block(path)
ReadBlock(de, fs, name) ==
    LET bytes == ReadBlockBytes(de, fs, name) IN
    IF bytes.kind # "Ok" THEN bytes ELSE BlockOfBytes(name, bytes.val)

\* Store::read_entry(refid)
ReadEntry(de, fs, refid) ==
    LET b == ReadBlock(de, fs, BlockFileName(refid.block_id)) IN
    IF b.kind # "Ok" THEN b ELSE BlockEntry(b.val, refid.entry_id)

(***************************************************************************)
(* Initial values shared by the specifications.                            *)
(***************************************************************************)
XmlStart == [phase |-> "outside", tfrags |-> << >>, xfrags |-> << >>]
Idle == [op |-> "none"]
RefZero == [block_id |-> <<0, 0>>, entry_id |-> <<0, 0>>]

InitCommon ==
    /\ xml = XmlStart /\ fed = 0 /\ current = PageNone /\ n = 0
    /\ block = BlockDefault
    /\ dict_en = NoneOpt /\ dict_de = NoneOpt /\ dictFile = NoneOpt
    /\ files = NoFiles
    /\ wire = NoneOpt /\ loaded = NoneOpt /\ out = Idle /\ refIn = RefZero
    /\ text = << >> /\ workers = << >>
    /\ appended = << >> /\ ingested = << >> /\ emitted = << >> /\ trained = 0
    /\ commits = 0

pipelineVars == <<xml, fed, current, n, ingested, emitted>>
storeVars == <<dict_en, dict_de, dictFile, files, trained, commits>>

(***************************************************************************)
(* SpecBlock: the Block and Entry codecs as pure functions.  Entries are   *)
(* appended to an empty block, the block is serialized with finish, the    *)
(* bytes are parsed back and entries are looked up in the parsed block.    *)
(***************************************************************************)
Titles == {<< >>, <<97>>, <<97, 98>>}
Bodies == {<< >>, <<120>>, <<120, 121>>}

InitBlock == pc = "building" /\ InitCommon

BAdd ==
    /\ pc = "building" /\ block.n < MaxAdd
    /\ \E t \in Titles, b \in Bodies :
         /\ block' = BlockAdd(block, EntryNew(t, b))
         /\ appended' = Append(appended, [title |-> t, body |-> b])
    /\ UNCHANGED <<pc, wire, loaded, out, refIn, text, workers>>
    /\ UNCHANGED pipelineVars /\ UNCHANGED storeVars

BFinish ==
    /\ pc = "building"
    /\ wire' = Some(BlockFinish(block))
    /\ pc' = "finished"
    /\ UNCHANGED <<block, appended, loaded, out, refIn, text, workers>>
    /\ UNCHANGED pipelineVars /\ UNCHANGED storeVars

\* the serialized bytes with their last byte (the last byte of the data
\* region) altered
CorruptLast(bytes) ==
    [bytes EXCEPT ![Len(bytes)] = (bytes[Len(bytes)] + 1) % 256]

\* the serialized block is damaged in storage: the last byte of its data
\* region is altered (only a block with a data region can be damaged so)
BCorrupt ==
    /\ pc = "finished" /\ Len(block.data) > 0
    /\ wire' = Some(CorruptLast(Unwrap(wire)))
    /\ pc' = "corrupted"
    /\ UNCHANGED <<block, appended, loaded, out, refIn, text, workers>>
    /\ UNCHANGED pipelineVars /\ UNCHANGED storeVars

\* values another writer may have left in the four reserved bytes
ForeignPads == {<<1, 0, 0, 0>>, <<7, 7, 7, 7>>}

\* the serialized bytes with the four reserved bytes after n replaced
Repad(bytes, pad) == Slice(bytes, 0, 4) \o pad \o Slice(bytes, 8, Len(bytes))

\* the serialized block reaches the reader with nonzero reserved bytes
BRepad ==
    /\ pc = "finished"
    /\ \E pad \in ForeignPads : wire' = Some(Repad(Unwrap(wire), pad))
    /\ pc' = "repadded"
    /\ UNCHANGED <<block, appended, loaded, out, refIn, text, workers>>
    /\ UNCHANGED pipelineVars /\ UNCHANGED storeVars

\* how many bytes a cut-off copy of the serialized block may lack
Cuts == {1, 5}

\* the serialized block reaches the reader without its last bytes (only
\* bytes of the data region are lost, and not all of them)
BTruncate ==
    /\ pc = "finished"
    /\ \E cut \in Cuts :
         /\ Len(block.data) > cut
         /\ wire' = Some(Slice(Unwrap(wire), 0, Len(Unwrap(wire)) - cut))
    /\ pc' = "truncated"
    /\ UNCHANGED <<block, appended, loaded, out, refIn, text, workers>>
    /\ UNCHANGED pipelineVars /\ UNCHANGED storeVars

\* the position after parsing the bytes of each kind
ParsedAs(at) ==
    IF at = "finished" THEN "parsed"
    ELSE IF at = "corrupted" THEN "parsed_corrupted"
    ELSE IF at = "truncated" THEN "parsed_truncated" ELSE "parsed_repadded"

BParse ==
    /\ pc \in {"finished", "corrupted", "repadded", "truncated"}
    /\ LET r == BlockFromBytes(Unwrap(wire)) IN
         /\ out' = [op |-> "from_bytes", res |-> r]
         /\ loaded' = IF r.kind = "Ok" THEN Some(r.val) ELSE NoneOpt
    /\ pc' = ParsedAs(pc)
    /\ UNCHANGED <<block, appended, wire, refIn, text, workers>>
    /\ UNCHANGED pipelineVars /\ UNCHANGED storeVars

BLookup ==
    /\ pc \in {"parsed", "parsed_corrupted", "parsed_repadded",
              "parsed_truncated"}
    /\ IsSome(loaded)
    /\ \E i \in 0..MaxAdd :
         out' = [op |-> "entry", i |-> i, res |-> BlockEntry(Unwrap(loaded), i)]
    /\ UNCHANGED <<pc, block, appended, wire, loaded, refIn, text, workers>>
    /\ UNCHANGED pipelineVars /\ UNCHANGED storeVars

NextBlock ==
    BAdd \/ BFinish \/ BCorrupt \/ BRepad \/ BTruncate \/ BParse \/ BLookup

SpecBlock == InitBlock /\ [][NextBlock]_vars

\* the encoded length of an entry (8 bytes of lengths, title, body)
EncodedLen(e) == 8 + Len(e.title) + Len(e.body)

\* C7: Block round-trip.  After append* ; finish ; parse the parsed block has
\* the n, starts and data of the built block, and lookup(i) returns for every
\* i < n the i-th appended title and body with ref = (block.id, i).
C7_BlockRoundTrip ==
    /\ (pc = "parsed" /\ block.n > 0) =>
         /\ IsSome(loaded)
         /\ Unwrap(loaded).n = block.n
         /\ Unwrap(loaded).starts = block.starts
         /\ Unwrap(loaded).data = block.data
    /\ (pc = "parsed" /\ out.op = "entry" /\ out.i < block.n) =>
         /\ out.res.kind = "Ok"
         /\ out.res.val.title = appended[out.i + 1].title
         /\ out.res.val.body = appended[out.i + 1].body
         /\ out.res.val.store_ref = RefNew(Unwrap(loaded).id, out.i)

\* C8: Offset monotonicity.  After any number of appends to an empty block,
\* n = len(starts), starts[0] = 0, starts is strictly increasing and
\* starts[i] + encoded_len(entry i) = starts[i+1], or len(data) for the last.
C8_OffsetMonotonic ==
    /\ block.n = Len(block.starts)
    /\ Len(appended) = block.n
    /\ block.n > 0 => block.starts[1] = 0
    /\ \A i \in 1..block.n :
         LET end == IF i < block.n THEN block.starts[i + 1] ELSE Len(block.data) IN
         /\ block.starts[i] < end
         /\ block.starts[i] + EncodedLen(appended[i]) = end

C8_Witness ==
    /\ pc = "building" /\ block.n = MaxAdd
    /\ appended[1].body = << >> /\ appended[2].title = << >>

\* C12: Lookup range check.  In a parsed block with n entries lookup(i) fails
\* with NoSuchEntry for every i >= n and leaves the block as it was parsed;
\* for i < n of a block built by append it does not fail with NoSuchEntry.
C12_LookupRange ==
    (out.op = "entry" /\ IsSome(loaded)) =>
        /\ loaded = Some(BlockFromBytes(Unwrap(wire)).val)
        /\ out.i >= Unwrap(loaded).n => out.res = Err("NoSuchEntry")
        /\ (pc = "parsed" /\ out.i < Unwrap(loaded).n) =>
               out.res # Err("NoSuchEntry")

C12_Witness ==
    /\ pc = "parsed" /\ out.op = "entry" /\ Unwrap(loaded).n = 2
    /\ out.i = 1 /\ out.res.kind = "Ok"

\* C16: Padding tolerance.  The writer emits the four reserved bytes after n
\* as zero, and the reader ignores them: a serialized block that differs
\* from a written one only by nonzero reserved bytes parses to the same n,
\* starts and data, and every lookup in it returns the same entry.
C16_PaddingTolerance ==
    /\ pc = "finished" => Slice(Unwrap(wire), 4, 8) = <<0, 0, 0, 0>>
    /\ (pc = "parsed_repadded" /\ block.n > 0) =>
         /\ Slice(Unwrap(wire), 4, 8) \in ForeignPads
         /\ IsSome(loaded)
         /\ Unwrap(loaded).n = block.n
         /\ Unwrap(loaded).starts = block.starts
         /\ Unwrap(loaded).data = block.data
         /\ out.op = "entry" => out.res = BlockEntry(block, out.i)

C16_Witness ==
    /\ pc = "parsed_repadded" /\ block.n = 2
    /\ Slice(Unwrap(wire), 4, 8) = <<7, 7, 7, 7>>
    /\ out.op = "entry" /\ out.i = 1 /\ out.res.kind = "Ok"

\* C21: Lookup stays within the data arena.  For every block obtained by
\* parsing bytes and every i < n, lookup(i) never aborts the program: it
\* returns an error value, or an entry whose encoded bytes lie inside
\* data[starts[i] .. end_i], where end_i is starts[i+1], or len(data) for the
\* last entry.
C21_LookupInsideArena ==
    (out.op = "entry" /\ IsSome(loaded) /\ out.i < Unwrap(loaded).n) =>
        LET b == Unwrap(loaded)
            i == out.i + 1
            end == IF i < Len(b.starts) THEN b.starts[i + 1] ELSE Len(b.data)
        IN  /\ out.res.kind # "Panic"
            /\ out.res.kind = "Ok" =>
                  b.starts[i] + 8 + Len(out.res.val.title)
                      + Len(out.res.val.body) <= end

\* C11: Corrupt block detection.  For a written block whose data region has
\* its last byte altered, reading the last entry index fails with an error:
\* it neither returns an entry nor aborts.
C11_CorruptBlockDetected ==
    (pc = "parsed_corrupted" /\ out.op = "entry" /\ out.i = block.n - 1) =>
        out.res.kind = "Err"

(***************************************************************************)
(* Ref over the whole u32 range (blockstore.rs:236-273).  A u32 is carried *)
(* as the numeral <<hi, lo>> of two 16-bit limbs and a u64 as the numeral  *)
(* <<l3, l2, l1, l0>> of four, most significant limb first, so that values *)
(* up to 2^32 - 1 and 2^64 - 1 stay exact.                                 *)
(***************************************************************************)
Limb == 256 * 256

\* u32::to_le_bytes / from_le_bytes, u64::to_le_bytes / from_le_bytes
U32ToLE(x) == <<x[2] % 256, x[2] \div 256, x[1] % 256, x[1] \div 256>>
U32FromLE(bs) == <<bs[4] * 256 + bs[3], bs[2] * 256 + bs[1]>>
U64ToLE(v) == <<v[4] % 256, v[4] \div 256, v[3] % 256, v[3] \div 256,
                v[2] % 256, v[2] \div 256, v[1] % 256, v[1] \div 256>>
U64FromLE(bs) == <<bs[8] * 256 + bs[7], bs[6] * 256 + bs[5],
                   bs[4] * 256 + bs[3], bs[2] * 256 + bs[1]>>

\* Ref::to_bytes (deku): block_id then entry_id, each little-endian
RefToBytesSwapped(r) == U32ToLE(r.entry_id) \o U32ToLE(r.block_id)
RefToBytes(r) == U32ToLE(r.block_id) \o U32ToLE(r.entry_id)

\* Ref::from_bytes (deku)
RefFromBytes(bs) ==
    [block_id |-> U32FromLE(SubSeq(bs, 1, 4)), entry_id |-> U32FromLE(SubSeq(bs, 5, 8))]

RefAsU64(r) == U64FromLE(RefToBytes(r))
RefFromU64(v) == RefFromBytes(U64ToLE(v))

\* decimal formatting of a u32 numeral: repeated division by ten
U32Div10(x) ==
    LET t == (x[1] % 10) * Limb + x[2] IN
    [q |-> <<x[1] \div 10, t \div 10>>, r |-> t % 10]

RECURSIVE FmtU32(_)
FmtU32(x) ==
    IF x[1] = 0 /\ x[2] < 10 THEN <<48 + x[2]>>
    ELSE FmtU32(U32Div10(x).q) \o <<48 + U32Div10(x).r>>

\* impl Display for Ref: "{}/{}"
RefDisplay(r) == FmtU32(r.block_id) \o Slash \o FmtU32(r.entry_id)

\* str::parse::<u32>(): optional '+', then digits, with overflow checked
RECURSIVE ParseU32Digits(_, _)
ParseU32Digits(s, acc) ==
    IF s = << >> THEN Ok(acc)
    ELSE IF ~IsDigit(s[1]) THEN Err("InvalidDigit")
    ELSE LET t  == acc[2] * 10 + (s[1] - 48)
             hi == acc[1] * 10 + (t \div Limb)
         IN  IF hi >= Limb THEN Err("PosOverflow")
             ELSE ParseU32Digits(Tail(s), <<hi, t % Limb>>)

ParseU32(s) ==
    IF s = << >> THEN Err("Empty")
    ELSE IF <<s[1]>> = Plus
         THEN (IF Len(s) = 1 THEN Err("InvalidDigit")
               ELSE ParseU32Digits(Tail(s), <<0, 0>>))
         ELSE ParseU32Digits(s, <<0, 0>>)

\* str::split_once('/'): the position of the first '/', 0 when absent
RECURSIVE FirstSlash(_, _)
FirstSlash(s, i) ==
    IF i > Len(s) THEN 0 ELSE IF <<s[i]>> = Slash THEN i ELSE FirstSlash(s, i + 1)

\* impl FromStr for Ref
RefFromStr(s) ==
    LET k == FirstSlash(s, 1) IN
    IF k = 0 THEN Err("missing / in refid") ELSE
    LET b == ParseU32(SubSeq(s, 1, k - 1))
        e == ParseU32(SubSeq(s, k + 1, Len(s)))
    IN  IF b.kind # "Ok" THEN b
        ELSE IF e.kind # "Ok" THEN e
        ELSE Ok([block_id |-> b.val, entry_id |-> e.val])

(***************************************************************************)
(* SpecRef: the Ref conversions applied to refs drawn from the u32 range.  *)
(***************************************************************************)
U32Samples ==
    {<<0, 0>>, <<0, 7>>, <<0, 42>>, <<0, 256>>, <<0, 65535>>, <<1, 0>>,
     <<4660, 22136>>, <<65535, 65535>>}

\* texts handed to the parser besides formatted refs:
\* "42/7", "42", "+1/2", "4294967296/0", "1/2/3", "/5"
RefTexts ==
    {<<52, 50, 47, 55>>, <<52, 50>>, <<43, 49, 47, 50>>,
     <<52, 50, 57, 52, 57, 54, 55, 50, 57, 54, 47, 48>>,
     <<49, 47, 50, 47, 51>>, <<47, 53>>}

InitRef ==
    /\ pc = "ref"
    /\ refIn \in [block_id : U32Samples, entry_id : U32Samples]
    /\ text = << >> /\ workers = << >>
    /\ xml = XmlStart /\ fed = 0 /\ current = PageNone /\ n = 0
    /\ block = BlockDefault
    /\ dict_en = NoneOpt /\ dict_de = NoneOpt /\ dictFile = NoneOpt
    /\ files = NoFiles
    /\ wire = NoneOpt /\ loaded = NoneOpt /\ out = Idle
    /\ appended = << >> /\ ingested = << >> /\ emitted = << >> /\ trained = 0
    /\ commits = 0

refFrame ==
    /\ UNCHANGED <<pc, refIn, text, workers, block, appended, wire, loaded>>
    /\ UNCHANGED pipelineVars /\ UNCHANGED storeVars

RAsU64 ==
    /\ pc = "ref"
    /\ out' = [op |-> "as_u64", val |-> RefAsU64(refIn)]
    /\ refFrame

RFromU64 ==
    /\ pc = "ref" /\ out.op = "as_u64"
    /\ out' = [op |-> "from_u64", val |-> RefFromU64(out.val)]
    /\ refFrame

RFormat ==
    /\ pc = "ref"
    /\ out' = [op |-> "format", val |-> RefDisplay(refIn)]
    /\ refFrame

RParse ==
    /\ pc = "ref" /\ out.op = "format"
    /\ out' = [op |-> "parse", res |-> RefFromStr(out.val)]
    /\ refFrame

RParseText ==
    /\ pc = "ref"
    /\ \E s \in RefTexts : out' = [op |-> "parse_text", text |-> s, res |-> RefFromStr(s)]
    /\ refFrame

NextRef == RAsU64 \/ RFromU64 \/ RFormat \/ RParse \/ RParseText

SpecRef == InitRef /\ [][NextRef]_vars

\* C9: Ref bijection.  from_u64(as_u64(r)) = r, parsing the text produced by
\* formatting r gives back r, and in the 64-bit form block_id is the low 32
\* bits and entry_id the high 32 bits.  "42/7" parses to (42, 7).
C9_RefBijection ==
    /\ out.op = "as_u64" =>
         /\ SubSeq(out.val, 3, 4) = refIn.block_id
         /\ SubSeq(out.val, 1, 2) = refIn.entry_id
    /\ out.op = "from_u64" => out.val = refIn
    /\ out.op = "parse" => out.res = Ok(refIn)
    /\ (out.op = "parse_text" /\ out.text = <<52, 50, 47, 55>>) =>
         out.res = Ok([block_id |-> <<0, 42>>, entry_id |-> <<0, 7>>])

C9_Witness ==
    /\ out.op = "parse"
    /\ refIn.block_id = <<65535, 65535>> /\ refIn.entry_id = <<4660, 22136>>
    /\ out.res.kind = "Ok"

(***************************************************************************)
(* SpecParse: Page::parse driven by arbitrary event sequences.             *)
(***************************************************************************)
Frags == {<<97>>, <<98, 32, 99>>}
ElementNames == {"page", "title", "text", "other"}
OtherTypes == {"StartDocument", "EndDocument", "Whitespace", "Comment",
               "ProcessingInstruction"}

\* the recognizer may take one more character event within the bound
RoomFor(page) ==
    /\ page.tag = "Title" => Len(page.title) < MaxFrags
    /\ page.tag = "Text" => Len(page.text) < MaxFrags

InitParse == pc = "parse" /\ InitCommon

ParseStep(ev) ==
    /\ pc = "parse"
    /\ current' = Parse(current, ev)
    /\ out' = [op |-> "event", from |-> current, ev |-> ev]
    /\ UNCHANGED <<pc, xml, fed, n, ingested, emitted, block, appended, wire,
                   loaded, refIn, text, workers>>
    /\ UNCHANGED storeVars

PStart == \E name \in ElementNames : ParseStep(StartElement(name))
PEnd == \E name \in ElementNames : ParseStep(EndElement(name))
PChars == \E s \in Frags : RoomFor(current) /\ ParseStep(Characters(s))
PCData == \E s \in Frags : RoomFor(current) /\ ParseStep(CData(s))
POther == \E t \in OtherTypes : ParseStep(OtherEvent(t))

NextParse == PStart \/ PEnd \/ PChars \/ PCData \/ POther

SpecParse == InitParse /\ [][NextParse]_vars

\* The transition table of the recognizer, one row per line: the set of the
\* next states the rows that match (p, ev) give.
Row(cond, res) == IF cond THEN {res} ELSE {}

RECURSIVE SpaceJoined(_, _)
SpaceJoined(ts, i) ==
    IF i > Len(ts) THEN << >>
    ELSE (IF i > 1 THEN <<32>> ELSE << >>) \o ts[i] \o SpaceJoined(ts, i + 1)

TableRows(p, ev) ==
    LET chars == ev.type = "Characters" \/ ev.type = "CData" IN
    Row(p.tag = "None" /\ ev = StartElement("page"), PageOpen)
    \cup Row(p.tag = "Open" /\ ev = StartElement("title"), PageTitle(<< >>))
    \cup Row(p.tag = "Title" /\ chars, PageTitle(p.title \o <<ev.s>>))
    \cup Row(p.tag = "Title" /\ ev = EndElement("title"),
             PageTitled(SpaceJoined(p.title, 1)))
    \cup Row(p.tag = "Titled" /\ ev = StartElement("text"), PageText(p.title, << >>))
    \cup Row(p.tag = "Text" /\ chars, PageText(p.title, p.text \o <<ev.s>>))
    \cup Row(p.tag = "Text" /\ ev = EndElement("text"),
             PageTexted(p.title, SpaceJoined(p.text, 1)))
    \cup Row(p.tag = "Texted", PageNone)
    \cup Row(ev = EndElement("page"), PageNone)

\* C6: Transition-table conformance.  For every (state, event) pair the next
\* state of Page::parse is the one the transition table gives, and a pair no
\* row lists leaves the state, with its fragments and title, unchanged.
C6_TableConformance ==
    out.op = "event" =>
        LET rows == TableRows(out.from, out.ev) IN
        IF rows = {} THEN current = out.from ELSE rows = {current}

C6_Witness ==
    /\ out.op = "event"
    /\ out.from.tag = "Text" /\ Len(out.from.text) = 2 /\ out.ev = EndElement("text")
    /\ current.tag = "Texted" /\ current.title = <<97, 32, 98, 32, 99>>

(***************************************************************************)
(* Spec: the ingestion run of main (StoreAction::Make) over a well-formed  *)
(* stream of non-nested <page> elements, each with a <title> followed by a *)
(* <text>, on a fresh store directory; then StoreAction::Get on the result.*)
(* Every action that feeds an event is one iteration of the loop at        *)
(* main.rs:124-146, commit included.                                       *)
(***************************************************************************)
MaxPages == CommitEvery + 1

TitleFrag == <<97>>
TextFrag == <<120>>

\* history: give the entries of the block committed under `tag` their refs
AssignRefs(ing, tag) ==
    LET pending == {k \in 1..Len(ing) : ing[k].ref = NoneOpt}
        first == IF pending = {} THEN 0 ELSE CHOOSE k \in pending : \A j \in pending : k <= j
    IN  [k \in 1..Len(ing) |->
           IF k \in pending THEN [ing[k] EXCEPT !.ref = Some(RefNew(tag, k - first))]
           ELSE ing[k]]

\* whether the loop commits after counting the n-th entry (main.rs:138)
CommitDue(cnt) == cnt % CommitEvery = 0

\* store.commit(&mut block, n)? as called by main, on block value blk
MainCommit(blk, ing, tag, trainOk, final) ==
    LET c == Commit(dict_en, dict_de, dictFile, files, blk, tag, trainOk) IN
    /\ block' = c.block
    /\ dict_en' = c.dict_en /\ dict_de' = c.dict_de
    /\ dictFile' = c.dictFile /\ files' = c.files
    /\ trained' = trained + (IF c.trainedNow THEN 1 ELSE 0)
    /\ commits' = commits + 1
    /\ appended' = << >>
    /\ ingested' = IF c.ok THEN AssignRefs(ing, tag) ELSE ing
    /\ pc' = IF ~c.ok THEN "failed" ELSE IF final THEN "done" ELSE "make"

\* one iteration of the loop: parse the event, and on Texted add the entry,
\* count it and commit when due
Drive(ev, trainOk) ==
    LET cur == Parse(current, ev) IN
    /\ current' = cur
    /\ IF cur.tag = "Texted"
       THEN LET blk == BlockAdd(block, EntryNew(cur.title, cur.text))
                cnt == n + 1
                ing == Append(ingested,
                              [title |-> cur.title, body |-> cur.text, ref |-> NoneOpt])
            IN  /\ n' = cnt
                /\ IF CommitDue(cnt)
                   THEN MainCommit(blk, ing, cnt, trainOk, FALSE)
                   ELSE /\ block' = blk
                        /\ appended' = Append(appended,
                                              [title |-> cur.title, body |-> cur.text])
                        /\ ingested' = ing
                        /\ UNCHANGED <<pc, dict_en, dict_de, dictFile, files,
                                       trained, commits>>
       ELSE UNCHANGED <<pc, n, block, appended, ingested, dict_en, dict_de,
                        dictFile, files, trained, commits>>

Init == pc = "make" /\ InitCommon

feedFrame == UNCHANGED <<wire, loaded, out, refIn, text, workers>>

FeedStartPage ==
    /\ pc = "make" /\ xml.phase = "outside" /\ fed < MaxPages
    /\ Drive(StartElement("page"), TRUE)
    /\ xml' = [phase |-> "page", tfrags |-> << >>, xfrags |-> << >>]
    /\ fed' = fed + 1
    /\ UNCHANGED emitted /\ feedFrame

FeedStartTitle ==
    /\ pc = "make" /\ xml.phase = "page"
    /\ Drive(StartElement("title"), TRUE)
    /\ xml' = [xml EXCEPT !.phase = "title"]
    /\ UNCHANGED <<fed, emitted>> /\ feedFrame

FeedTitleChars ==
    /\ pc = "make" /\ xml.phase = "title" /\ Len(xml.tfrags) < MaxFrags
    /\ \E ev \in {Characters(TitleFrag), CData(TitleFrag)} : Drive(ev, TRUE)
    /\ xml' = [xml EXCEPT !.tfrags = Append(@, TitleFrag)]
    /\ UNCHANGED <<fed, emitted>> /\ feedFrame

FeedEndTitle ==
    /\ pc = "make" /\ xml.phase = "title"
    /\ Drive(EndElement("title"), TRUE)
    /\ xml' = [xml EXCEPT !.phase = "titled"]
    /\ UNCHANGED <<fed, emitted>> /\ feedFrame

FeedStartText ==
    /\ pc = "make" /\ xml.phase = "titled"
    /\ Drive(StartElement("text"), TRUE)
    /\ xml' = [xml EXCEPT !.phase = "text"]
    /\ UNCHANGED <<fed, emitted>> /\ feedFrame

FeedTextChars ==
    /\ pc = "make" /\ xml.phase = "text" /\ Len(xml.xfrags) < MaxFrags
    /\ \E ev \in {Characters(TextFrag), CData(TextFrag)} : Drive(ev, TRUE)
    /\ xml' = [xml EXCEPT !.xfrags = Append(@, TextFrag)]
    /\ UNCHANGED <<fed, emitted>> /\ feedFrame

\* </text>: the page is complete; the loop may commit here
FeedEndText ==
    /\ pc = "make" /\ xml.phase = "text"
    /\ \E trainOk \in BOOLEAN : Drive(EndElement("text"), trainOk)
    /\ xml' = [xml EXCEPT !.phase = "texted"]
    /\ emitted' = Append(emitted, [tfrags |-> xml.tfrags, xfrags |-> xml.xfrags])
    /\ UNCHANGED fed /\ feedFrame

FeedEndPage ==
    /\ pc = "make" /\ xml.phase = "texted"
    /\ Drive(EndElement("page"), TRUE)
    /\ xml' = XmlStart
    /\ UNCHANGED <<fed, emitted>> /\ feedFrame

\* events the recognizer has no use for: other elements anywhere, white
\* space and comments, and character data outside <title> and <text>
FeedOther ==
    /\ pc = "make"
    /\ \E ev \in {StartElement("other"), EndElement("other"), OtherEvent("Whitespace")}
              \cup (IF xml.phase \in {"title", "text"} THEN {}
                    ELSE {Characters(TextFrag)}) :
         Drive(ev, TRUE)
    /\ UNCHANGED <<xml, fed, emitted>> /\ feedFrame

\* end of the stream: the final commit (main.rs:148-150)
EndOfStream ==
    /\ pc = "make" /\ xml.phase = "outside"
    /\ \E trainOk \in BOOLEAN :
         MainCommit(block, ingested, n, trainOk, TRUE)
    /\ UNCHANGED <<xml, fed, current, n, emitted>> /\ feedFrame

\* StoreAction::Get { refid }: a new handle, open, read_entry
GetEntry(refid) ==
    LET de == Open(dictFile) IN
    IF de.kind # "Ok" THEN de ELSE ReadEntry(de.val, files, refid)

\* read_entry(refid)?.open(): what Get prints, or the error or panic instead
GetPrinted(res) ==
    IF res.kind # "Ok" THEN res
    ELSE LET o == EntryOpen(res.val) IN
         IF o.kind = "Ok" THEN Ok(o.val.title \o <<10, 10>> \o o.val.body)
         ELSE o

GetRefs == {RefNew(0, 0), RefNew(CommitEvery, 0), RefNew(CommitEvery + 1, 0)}

Get ==
    /\ pc = "done"
    /\ \E r \in GetRefs :
         out' = [op |-> "get", ref |-> r, res |-> GetEntry(r),
                 printed |-> GetPrinted(GetEntry(r))]
    /\ pc' = "got"
    /\ UNCHANGED <<block, appended, wire, loaded, refIn, text, workers>>
    /\ UNCHANGED pipelineVars /\ UNCHANGED storeVars

Next ==
    \/ FeedStartPage \/ FeedStartTitle \/ FeedTitleChars \/ FeedEndTitle
    \/ FeedStartText \/ FeedTextChars \/ FeedEndText \/ FeedEndPage
    \/ FeedOther \/ EndOfStream \/ Get

Spec == Init /\ [][Next]_vars

\* the entry read_entry returned is the k-th ingested one, under its ref
ReadsBack(res, k) ==
    /\ res.kind = "Ok"
    /\ res.val.title = ingested[k].title
    /\ res.val.body = ingested[k].body
    /\ res.val.store_ref = Unwrap(ingested[k].ref)

\* C1: Store round-trip.  After a completed ingestion run the store, opened
\* for reading, returns every ingested entry by read_entry on its assigned
\* ref with title and body byte-exact, for every total count N, N an exact
\* multiple of the block size included.  (Stated for the entries the entry
\* decoder accepts, those with a nonempty title or an empty body, so that a
\* violation shows an entry missing from the store.)
C1_StoreRoundTrip ==
    pc = "done" =>
        \A k \in 1..Len(ingested) :
            (ingested[k].title # << >> \/ ingested[k].body = << >>) =>
                /\ IsSome(ingested[k].ref)
                /\ ReadsBack(GetEntry(Unwrap(ingested[k].ref)), k)

\* C2: Committed blocks are immutable and refs are stable.  No step of an
\* ingestion run changes or removes a block file an earlier commit wrote, and
\* an entry read_entry returns for a ref is still returned after the step.
C2_CommittedImmutable ==
    [][ /\ \A name \in DOMAIN files :
             name \in DOMAIN files' /\ files'[name] = files[name]
        /\ \A r \in GetRefs :
             ReadEntry(dict_de, files, r).kind = "Ok" =>
                 ReadEntry(dict_de', files', r) = ReadEntry(dict_de, files, r)
      ]_vars

\* C4: Block numbering by the ingestion pipeline.  Block files are numbered
\* consecutively from 0 in commit order: a run of fewer entries than one block
\* leaves exactly the block file 0.zst and zst.dictionary, with the i-th entry
\* at Ref(0, i); a run of one block plus one entry leaves exactly two block
\* files, with the last entry at Ref(1, 0).
C4_ConsecutiveBlockIds ==
    /\ (pc = "done" /\ 0 < n /\ n < CommitEvery) =>
         /\ DOMAIN files = {BlockFileName(0)}
         /\ IsSome(dictFile)
         /\ \A i \in 0..(n - 1) :
              (ingested[i + 1].title # << >> \/ ingested[i + 1].body = << >>) =>
                  LET res == GetEntry(RefNew(0, i)) IN
                  /\ res.kind = "Ok"
                  /\ res.val.title = ingested[i + 1].title
                  /\ res.val.body = ingested[i + 1].body
    /\ (pc = "done" /\ n = CommitEvery + 1) =>
         /\ DOMAIN files = {BlockFileName(0), BlockFileName(1)}
         /\ (ingested[n].title # << >> \/ ingested[n].body = << >>) =>
              LET res == GetEntry(RefNew(1, 0)) IN
              /\ res.kind = "Ok"
              /\ res.val.title = ingested[n].title
              /\ res.val.body = ingested[n].body

\* the page the recognizer is expected to emit for delivered fragments
ExpectedPage(p) ==
    [title |-> SpaceJoined(p.tfrags, 1), body |-> SpaceJoined(p.xfrags, 1)]

\* C5: Page emission.  The driver observes Texted exactly once per page, in
\* document order, with the page's title fragments and text fragments each
\* joined by a single space: the entries added are exactly the pages whose
\* </text> was delivered.  After the event that follows Texted the machine is
\* back in None, so it is in None between pages and in Open after <page>.
C5_PageEmission ==
    /\ Len(ingested) = Len(emitted)
    /\ n = Len(emitted)
    /\ \A k \in 1..Len(emitted) :
         /\ ingested[k].title = ExpectedPage(emitted[k]).title
         /\ ingested[k].body = ExpectedPage(emitted[k]).body
    /\ pc = "make" =>
         /\ xml.phase = "outside" => current = PageNone
         /\ xml.phase = "page" => current = PageOpen
         /\ xml.phase = "texted" => current.tag \in {"Texted", "None"}
         /\ current.tag = "Texted" => xml.phase = "texted"

C5_Witness ==
    /\ pc = "make" /\ xml.phase = "outside" /\ Len(ingested) = MaxPages
    /\ ingested[1].title = <<97, 32, 97>> /\ ingested[1].body = << >>
    /\ ingested[2].title = << >> /\ ingested[2].body = <<120, 32, 120>>

(***************************************************************************)
(* SpecStore: the Store API called in any order on one directory: handles  *)
(* are constructed (new), opened, committed to and read through.           *)
(***************************************************************************)
StoreEntry == [title |-> <<97>>, body |-> <<120>>]
CommitTags == {0, 1}
StoreRefs == {RefNew(b, e) : b \in CommitTags, e \in 0..1}

InitStore == pc = "store" /\ InitCommon

\* Store::new: a fresh handle on the same directory
SNew ==
    /\ pc = "store"
    /\ dict_en' = NoneOpt /\ dict_de' = NoneOpt
    /\ out' = [op |-> "new"]
    /\ UNCHANGED <<pc, dictFile, files, trained, commits, block, appended, wire,
                   loaded, refIn, text, workers>>
    /\ UNCHANGED pipelineVars

SOpen ==
    /\ pc = "store"
    /\ LET r == Open(dictFile) IN
         /\ dict_de' = IF r.kind = "Ok" THEN r.val ELSE dict_de
         /\ out' = [op |-> "open", kind |-> r.kind]
    /\ UNCHANGED <<pc, dict_en, dictFile, files, trained, commits, block, appended,
                   wire, loaded, refIn, text, workers>>
    /\ UNCHANGED pipelineVars

SAdd ==
    /\ pc = "store" /\ block.n < MaxBlock
    /\ block' = BlockAdd(block, EntryNew(StoreEntry.title, StoreEntry.body))
    /\ appended' = Append(appended, StoreEntry)
    /\ out' = [op |-> "add"]
    /\ UNCHANGED <<pc, wire, loaded, refIn, text, workers>>
    /\ UNCHANGED pipelineVars /\ UNCHANGED storeVars

SCommit ==
    /\ pc = "store" /\ commits < MaxCommits
    /\ \E tag \in CommitTags, trainOk \in BOOLEAN :
         LET c == Commit(dict_en, dict_de, dictFile, files, block, tag, trainOk) IN
         /\ block' = c.block
         /\ dict_en' = c.dict_en /\ dict_de' = c.dict_de
         /\ dictFile' = c.dictFile /\ files' = c.files
         /\ trained' = trained + (IF c.trainedNow THEN 1 ELSE 0)
         /\ out' = [op |-> "commit", ok |-> c.ok, tag |-> tag,
                    trainedNow |-> c.trainedNow, held |-> appended]
    /\ commits' = commits + 1
    /\ appended' = << >>
    /\ UNCHANGED <<pc, wire, loaded, refIn, text, workers>>
    /\ UNCHANGED pipelineVars

SBlocks ==
    /\ pc = "store"
    /\ out' = [op |-> "blocks", val |-> Blocks(files)]
    /\ UNCHANGED <<pc, block, appended, wire, loaded, refIn, text, workers>>
    /\ UNCHANGED pipelineVars /\ UNCHANGED storeVars

SReadBlock ==
    /\ pc = "store"
    /\ \E tag \in CommitTags :
         LET r == ReadBlock(dict_de, files, BlockFileName(tag)) IN
         /\ out' = [op |-> "read_block", opened |-> IsSome(dict_de), res |-> r]
         /\ loaded' = IF r.kind = "Ok" THEN Some(r.val) ELSE loaded
         /\ pc' = IF r.kind = "Panic" THEN "aborted" ELSE pc
    /\ UNCHANGED <<block, appended, wire, refIn, text, workers>>
    /\ UNCHANGED pipelineVars /\ UNCHANGED storeVars

SReadEntry ==
    /\ pc = "store"
    /\ \E r \in StoreRefs :
         LET e == ReadEntry(dict_de, files, r) IN
         /\ out' = [op |-> "read_entry", opened |-> IsSome(dict_de), res |-> e]
         /\ pc' = IF e.kind = "Panic" THEN "aborted" ELSE pc
    /\ UNCHANGED <<block, appended, wire, loaded, refIn, text, workers>>
    /\ UNCHANGED pipelineVars /\ UNCHANGED storeVars

NextStore == SNew \/ SOpen \/ SAdd \/ SCommit \/ SBlocks \/ SReadBlock \/ SReadEntry

SpecStore == InitStore /\ [][NextStore]_vars

\* C3: Dictionary trained once.  The commit that finds no dictionary in the
\* handle trains one, writes it to zst.dictionary and keeps its encoder and
\* decoder forms; while the handle holds a dictionary no later step trains
\* again or changes the file's bytes or the in-memory dictionaries.
C3_TrainedOnce ==
    [][ /\ (IsSome(dict_en) /\ IsSome(dict_en')) =>
             /\ trained' = trained
             /\ dictFile' = dictFile
             /\ dict_en' = dict_en
             /\ dict_de' = dict_de
        /\ (~IsSome(dict_en) /\ IsSome(dict_en')) =>
             /\ trained' = trained + 1
             /\ dictFile' = Some(Unwrap(dict_en').dict)
             /\ dict_de' = Some(DecoderDictionaryCopy(Unwrap(dict_en').dict))
      ]_vars

C3_Witness ==
    /\ commits = MaxCommits /\ trained = 1
    /\ out.op = "commit" /\ out.ok /\ ~out.trainedNow /\ out.held # << >>
    /\ Cardinality(DOMAIN files) = 2

\* C10: Read before open.  read_block and read_entry on a handle whose
\* decoder dictionary has not been loaded return an error value to the
\* caller and do not abort the program.
C10_ReadBeforeOpen ==
    (out.op \in {"read_block", "read_entry"} /\ ~out.opened) => out.res.kind = "Err"

\* C13: Atomic commit failure on training.  A commit whose dictionary
\* training fails returns an error and changes neither the directory nor the
\* handle's dictionaries; when it is the first commit on the directory there
\* is afterwards no zst.dictionary, no block file and no in-memory dictionary.
C13_TrainingFailureAtomic ==
    [][(commits' = commits + 1 /\ ~out'.ok) =>
          /\ dictFile' = dictFile /\ files' = files
          /\ dict_en' = NoneOpt /\ dict_de' = dict_de
          /\ commits = 0 =>
                /\ dictFile' = NoneOpt /\ files' = NoFiles
                /\ dict_de' = NoneOpt]_vars

C13_Witness ==
    /\ out.op = "commit" /\ ~out.ok /\ commits = 1 /\ Len(out.held) = 2
    /\ dictFile = NoneOpt /\ files = NoFiles

\* the block that holds exactly the given entries, in order
RECURSIVE BlockOf(_)
BlockOf(held) ==
    IF held = << >> THEN BlockDefault
    ELSE BlockAdd(BlockOf(SubSeq(held, 1, Len(held) - 1)),
                  EntryNew(held[Len(held)].title, held[Len(held)].body))

\* C14: Commit is move-and-reset.  When commit has returned the caller's
\* block is an empty block (n = 0, starts empty, data empty), and the block
\* file it wrote holds exactly the entries appended since the previous
\* commit, so entries appended after a commit go only into the next block.
C14_CommitMoveAndReset ==
    out.op = "commit" =>
        /\ block.n = 0 /\ block.starts = << >> /\ block.data = << >>
        /\ out.ok =>
              /\ BlockFileName(out.tag) \in DOMAIN files
              /\ files[BlockFileName(out.tag)].payload
                   = BlockFinish(BlockOf(out.held))

C14_Witness ==
    /\ out.op = "commit" /\ out.ok /\ commits = 2 /\ Len(out.held) = 1
    /\ DOMAIN files = {BlockFileName(0), BlockFileName(1)}
    /\ files[BlockFileName(0)].payload = BlockFinish(BlockOf(<<StoreEntry, StoreEntry>>))
    /\ files[BlockFileName(1)].payload = BlockFinish(BlockOf(<<StoreEntry>>))

\* the encoded lengths of the given entries, in order
EncodedLens(held) == [i \in 1..Len(held) |-> EncodedLen(held[i])]

RECURSIVE SumOf(_)
SumOf(sizes) == IF sizes = << >> THEN 0 ELSE Head(sizes) + SumOf(Tail(sizes))

\* C17: Training sample sizes.  The sample sizes handed to dictionary
\* training are the n per-entry encoded lengths of the block being committed,
\* each of them positive, and their sum is len(data).
C17_SampleSizes ==
    (out.op = "commit" /\ out.trainedNow) =>
        LET sizes == Unwrap(dictFile).sizes IN
        /\ sizes = EncodedLens(out.held)
        /\ \A i \in 1..Len(sizes) : sizes[i] > 0
        /\ SumOf(sizes) = Len(Unwrap(dictFile).samples)

\* C18: Dictionary never replaced across handles.  Once the directory holds
\* zst.dictionary, no step through any handle (fresh or opened) rewrites it,
\* and every block file on disk stays decodable with the dictionary on disk.
C18_DictionaryKept ==
    [][IsSome(dictFile) =>
          /\ dictFile' = dictFile
          /\ \A name \in DOMAIN files' :
                Decompress(DecoderDictionaryCopy(Unwrap(dictFile')),
                           files'[name]).kind = "Ok"]_vars

(***************************************************************************)
(* split_by_section (main.rs:393-430).  A text is the sequence of its      *)
(* characters (Unicode scalar values); offsets into it are byte offsets of *)
(* its UTF-8 form where the source uses them.                              *)
(* The two heading patterns differ only in their mark: LANG_RX is          *)
(* (?m)^\s*==([\w\s]+)==\s*$ and GRAM_RX the same with ===.                *)
(***************************************************************************)
LANG_RX == [mark |-> <<61, 61>>]
GRAM_RX == [mark |-> <<61, 61, 61>>]

\* Unicode tables.  A text is a sequence of Unicode scalar values; the ASCII
\* part of each property is written out in the definition that uses the
\* table.  The tables the program runs with are those of its build: the
\* regex crate carries its own (\w) and std carries its own (Cased,
\* Case_Ignorable, the case mappings), each at the Unicode version of the
\* release that was compiled in, and the source fixes neither.  The tables
\* below are those of Unicode 14.0.  The build is the parameter u of the
\* definitions that depend on it; it says where the build's tables differ
\* from these:
\*   u.word, u.ignorable, u.cased : [add |-> the set of ranges <<lo, hi>>
\*                                   the build's property holds in addition,
\*                                   del |-> those where it does not hold]
\*   u.lower : the lowercase mapping (a sequence of scalars) of each code
\*             point that the build maps otherwise
\* Each table is in ascending order.
\* \w above U+007F: Alphabetic, M, Nd, Pc and Join_Control, as ranges
WordRanges ==
    <<<<170, 170>>, <<181, 181>>, <<186, 186>>, <<192, 214>>, <<216, 246>>,
      <<248, 705>>, <<710, 721>>, <<736, 740>>, <<748, 748>>, <<750, 750>>,
      <<768, 884>>, <<886, 887>>, <<890, 893>>, <<895, 895>>, <<902, 902>>,
      <<904, 906>>, <<908, 908>>, <<910, 929>>, <<931, 1013>>, <<1015, 1153>>,
      <<1155, 1327>>, <<1329, 1366>>, <<1369, 1369>>, <<1376, 1416>>,
      <<1425, 1469>>, <<1471, 1471>>, <<1473, 1474>>, <<1476, 1477>>,
      <<1479, 1479>>, <<1488, 1514>>, <<1519, 1522>>, <<1552, 1562>>,
      <<1568, 1641>>, <<1646, 1747>>, <<1749, 1756>>, <<1759, 1768>>,
      <<1770, 1788>>, <<1791, 1791>>, <<1808, 1866>>, <<1869, 1969>>,
      <<1984, 2037>>, <<2042, 2042>>, <<2045, 2045>>, <<2048, 2093>>,
      <<2112, 2139>>, <<2144, 2154>>, <<2160, 2183>>, <<2185, 2190>>,
      <<2200, 2273>>, <<2275, 2403>>, <<2406, 2415>>, <<2417, 2435>>,
      <<2437, 2444>>, <<2447, 2448>>, <<2451, 2472>>, <<2474, 2480>>,
      <<2482, 2482>>, <<2486, 2489>>, <<2492, 2500>>, <<2503, 2504>>,
      <<2507, 2510>>, <<2519, 2519>>, <<2524, 2525>>, <<2527, 2531>>,
      <<2534, 2545>>, <<2556, 2556>>, <<2558, 2558>>, <<2561, 2563>>,
      <<2565, 2570>>, <<2575, 2576>>, <<2579, 2600>>, <<2602, 2608>>,
      <<2610, 2611>>, <<2613, 2614>>, <<2616, 2617>>, <<2620, 2620>>,
      <<2622, 2626>>, <<2631, 2632>>, <<2635, 2637>>, <<2641, 2641>>,
      <<2649, 2652>>, <<2654, 2654>>, <<2662, 2677>>, <<2689, 2691>>,
      <<2693, 2701>>, <<2703, 2705>>, <<2707, 2728>>, <<2730, 2736>>,
      <<2738, 2739>>, <<2741, 2745>>, <<2748, 2757>>, <<2759, 2761>>,
      <<2763, 2765>>, <<2768, 2768>>, <<2784, 2787>>, <<2790, 2799>>,
      <<2809, 2815>>, <<2817, 2819>>, <<2821, 2828>>, <<2831, 2832>>,
      <<2835, 2856>>, <<2858, 2864>>, <<2866, 2867>>, <<2869, 2873>>,
      <<2876, 2884>>, <<2887, 2888>>, <<2891, 2893>>, <<2901, 2903>>,
      <<2908, 2909>>, <<2911, 2915>>, <<2918, 2927>>, <<2929, 2929>>,
      <<2946, 2947>>, <<2949, 2954>>, <<2958, 2960>>, <<2962, 2965>>,
      <<2969, 2970>>, <<2972, 2972>>, <<2974, 2975>>, <<2979, 2980>>,
      <<2984, 2986>>, <<2990, 3001>>, <<3006, 3010>>, <<3014, 3016>>,
      <<3018, 3021>>, <<3024, 3024>>, <<3031, 3031>>, <<3046, 3055>>,
      <<3072, 3084>>, <<3086, 3088>>, <<3090, 3112>>, <<3114, 3129>>,
      <<3132, 3140>>, <<3142, 3144>>, <<3146, 3149>>, <<3157, 3158>>,
      <<3160, 3162>>, <<3165, 3165>>, <<3168, 3171>>, <<3174, 3183>>,
      <<3200, 3203>>, <<3205, 3212>>, <<3214, 3216>>, <<3218, 3240>>,
      <<3242, 3251>>, <<3253, 3257>>, <<3260, 3268>>, <<3270, 3272>>,
      <<3274, 3277>>, <<3285, 3286>>, <<3293, 3294>>, <<3296, 3299>>,
      <<3302, 3311>>, <<3313, 3314>>, <<3328, 3340>>, <<3342, 3344>>,
      <<3346, 3396>>, <<3398, 3400>>, <<3402, 3406>>, <<3412, 3415>>,
      <<3423, 3427>>, <<3430, 3439>>, <<3450, 3455>>, <<3457, 3459>>,
      <<3461, 3478>>, <<3482, 3505>>, <<3507, 3515>>, <<3517, 3517>>,
      <<3520, 3526>>, <<3530, 3530>>, <<3535, 3540>>, <<3542, 3542>>,
      <<3544, 3551>>, <<3558, 3567>>, <<3570, 3571>>, <<3585, 3642>>,
      <<3648, 3662>>, <<3664, 3673>>, <<3713, 3714>>, <<3716, 3716>>,
      <<3718, 3722>>, <<3724, 3747>>, <<3749, 3749>>, <<3751, 3773>>,
      <<3776, 3780>>, <<3782, 3782>>, <<3784, 3789>>, <<3792, 3801>>,
      <<3804, 3807>>, <<3840, 3840>>, <<3864, 3865>>, <<3872, 3881>>,
      <<3893, 3893>>, <<3895, 3895>>, <<3897, 3897>>, <<3902, 3911>>,
      <<3913, 3948>>, <<3953, 3972>>, <<3974, 3991>>, <<3993, 4028>>,
      <<4038, 4038>>, <<4096, 4169>>, <<4176, 4253>>, <<4256, 4293>>,
      <<4295, 4295>>, <<4301, 4301>>, <<4304, 4346>>, <<4348, 4680>>,
      <<4682, 4685>>, <<4688, 4694>>, <<4696, 4696>>, <<4698, 4701>>,
      <<4704, 4744>>, <<4746, 4749>>, <<4752, 4784>>, <<4786, 4789>>,
      <<4792, 4798>>, <<4800, 4800>>, <<4802, 4805>>, <<4808, 4822>>,
      <<4824, 4880>>, <<4882, 4885>>, <<4888, 4954>>, <<4957, 4959>>,
      <<4992, 5007>>, <<5024, 5109>>, <<5112, 5117>>, <<5121, 5740>>,
      <<5743, 5759>>, <<5761, 5786>>, <<5792, 5866>>, <<5870, 5880>>,
      <<5888, 5909>>, <<5919, 5940>>, <<5952, 5971>>, <<5984, 5996>>,
      <<5998, 6000>>, <<6002, 6003>>, <<6016, 6099>>, <<6103, 6103>>,
      <<6108, 6109>>, <<6112, 6121>>, <<6155, 6157>>, <<6159, 6169>>,
      <<6176, 6264>>, <<6272, 6314>>, <<6320, 6389>>, <<6400, 6430>>,
      <<6432, 6443>>, <<6448, 6459>>, <<6470, 6509>>, <<6512, 6516>>,
      <<6528, 6571>>, <<6576, 6601>>, <<6608, 6617>>, <<6656, 6683>>,
      <<6688, 6750>>, <<6752, 6780>>, <<6783, 6793>>, <<6800, 6809>>,
      <<6823, 6823>>, <<6832, 6862>>, <<6912, 6988>>, <<6992, 7001>>,
      <<7019, 7027>>, <<7040, 7155>>, <<7168, 7223>>, <<7232, 7241>>,
      <<7245, 7293>>, <<7296, 7304>>, <<7312, 7354>>, <<7357, 7359>>,
      <<7376, 7378>>, <<7380, 7418>>, <<7424, 7957>>, <<7960, 7965>>,
      <<7968, 8005>>, <<8008, 8013>>, <<8016, 8023>>, <<8025, 8025>>,
      <<8027, 8027>>, <<8029, 8029>>, <<8031, 8061>>, <<8064, 8116>>,
      <<8118, 8124>>, <<8126, 8126>>, <<8130, 8132>>, <<8134, 8140>>,
      <<8144, 8147>>, <<8150, 8155>>, <<8160, 8172>>, <<8178, 8180>>,
      <<8182, 8188>>, <<8204, 8205>>, <<8255, 8256>>, <<8276, 8276>>,
      <<8305, 8305>>, <<8319, 8319>>, <<8336, 8348>>, <<8400, 8432>>,
      <<8450, 8450>>, <<8455, 8455>>, <<8458, 8467>>, <<8469, 8469>>,
      <<8473, 8477>>, <<8484, 8484>>, <<8486, 8486>>, <<8488, 8488>>,
      <<8490, 8493>>, <<8495, 8505>>, <<8508, 8511>>, <<8517, 8521>>,
      <<8526, 8526>>, <<8544, 8584>>, <<9398, 9449>>, <<11264, 11492>>,
      <<11499, 11507>>, <<11520, 11557>>, <<11559, 11559>>, <<11565, 11565>>,
      <<11568, 11623>>, <<11631, 11631>>, <<11647, 11670>>, <<11680, 11686>>,
      <<11688, 11694>>, <<11696, 11702>>, <<11704, 11710>>, <<11712, 11718>>,
      <<11720, 11726>>, <<11728, 11734>>, <<11736, 11742>>, <<11744, 11775>>,
      <<11823, 11823>>, <<12293, 12295>>, <<12321, 12335>>, <<12337, 12341>>,
      <<12344, 12348>>, <<12353, 12438>>, <<12441, 12442>>, <<12445, 12447>>,
      <<12449, 12538>>, <<12540, 12543>>, <<12549, 12591>>, <<12593, 12686>>,
      <<12704, 12735>>, <<12784, 12799>>, <<13312, 19903>>, <<19968, 42124>>,
      <<42192, 42237>>, <<42240, 42508>>, <<42512, 42539>>, <<42560, 42610>>,
      <<42612, 42621>>, <<42623, 42737>>, <<42775, 42783>>, <<42786, 42888>>,
      <<42891, 42954>>, <<42960, 42961>>, <<42963, 42963>>, <<42965, 42969>>,
      <<42994, 43047>>, <<43052, 43052>>, <<43072, 43123>>, <<43136, 43205>>,
      <<43216, 43225>>, <<43232, 43255>>, <<43259, 43259>>, <<43261, 43309>>,
      <<43312, 43347>>, <<43360, 43388>>, <<43392, 43456>>, <<43471, 43481>>,
      <<43488, 43518>>, <<43520, 43574>>, <<43584, 43597>>, <<43600, 43609>>,
      <<43616, 43638>>, <<43642, 43714>>, <<43739, 43741>>, <<43744, 43759>>,
      <<43762, 43766>>, <<43777, 43782>>, <<43785, 43790>>, <<43793, 43798>>,
      <<43808, 43814>>, <<43816, 43822>>, <<43824, 43866>>, <<43868, 43881>>,
      <<43888, 44010>>, <<44012, 44013>>, <<44016, 44025>>, <<44032, 55203>>,
      <<55216, 55238>>, <<55243, 55291>>, <<63744, 64109>>, <<64112, 64217>>,
      <<64256, 64262>>, <<64275, 64279>>, <<64285, 64296>>, <<64298, 64310>>,
      <<64312, 64316>>, <<64318, 64318>>, <<64320, 64321>>, <<64323, 64324>>,
      <<64326, 64433>>, <<64467, 64829>>, <<64848, 64911>>, <<64914, 64967>>,
      <<65008, 65019>>, <<65024, 65039>>, <<65056, 65071>>, <<65075, 65076>>,
      <<65101, 65103>>, <<65136, 65140>>, <<65142, 65276>>, <<65296, 65305>>,
      <<65313, 65338>>, <<65343, 65343>>, <<65345, 65370>>, <<65382, 65470>>,
      <<65474, 65479>>, <<65482, 65487>>, <<65490, 65495>>, <<65498, 65500>>,
      <<65536, 65547>>, <<65549, 65574>>, <<65576, 65594>>, <<65596, 65597>>,
      <<65599, 65613>>, <<65616, 65629>>, <<65664, 65786>>, <<65856, 65908>>,
      <<66045, 66045>>, <<66176, 66204>>, <<66208, 66256>>, <<66272, 66272>>,
      <<66304, 66335>>, <<66349, 66378>>, <<66384, 66426>>, <<66432, 66461>>,
      <<66464, 66499>>, <<66504, 66511>>, <<66513, 66517>>, <<66560, 66717>>,
      <<66720, 66729>>, <<66736, 66771>>, <<66776, 66811>>, <<66816, 66855>>,
      <<66864, 66915>>, <<66928, 66938>>, <<66940, 66954>>, <<66956, 66962>>,
      <<66964, 66965>>, <<66967, 66977>>, <<66979, 66993>>, <<66995, 67001>>,
      <<67003, 67004>>, <<67072, 67382>>, <<67392, 67413>>, <<67424, 67431>>,
      <<67456, 67461>>, <<67463, 67504>>, <<67506, 67514>>, <<67584, 67589>>,
      <<67592, 67592>>, <<67594, 67637>>, <<67639, 67640>>, <<67644, 67644>>,
      <<67647, 67669>>, <<67680, 67702>>, <<67712, 67742>>, <<67808, 67826>>,
      <<67828, 67829>>, <<67840, 67861>>, <<67872, 67897>>, <<67968, 68023>>,
      <<68030, 68031>>, <<68096, 68099>>, <<68101, 68102>>, <<68108, 68115>>,
      <<68117, 68119>>, <<68121, 68149>>, <<68152, 68154>>, <<68159, 68159>>,
      <<68192, 68220>>, <<68224, 68252>>, <<68288, 68295>>, <<68297, 68326>>,
      <<68352, 68405>>, <<68416, 68437>>, <<68448, 68466>>, <<68480, 68497>>,
      <<68608, 68680>>, <<68736, 68786>>, <<68800, 68850>>, <<68864, 68903>>,
      <<68912, 68921>>, <<69248, 69289>>, <<69291, 69292>>, <<69296, 69297>>,
      <<69376, 69404>>, <<69415, 69415>>, <<69424, 69456>>, <<69488, 69509>>,
      <<69552, 69572>>, <<69600, 69622>>, <<69632, 69702>>, <<69734, 69749>>,
      <<69759, 69818>>, <<69826, 69826>>, <<69840, 69864>>, <<69872, 69881>>,
      <<69888, 69940>>, <<69942, 69951>>, <<69956, 69959>>, <<69968, 70003>>,
      <<70006, 70006>>, <<70016, 70084>>, <<70089, 70092>>, <<70094, 70106>>,
      <<70108, 70108>>, <<70144, 70161>>, <<70163, 70199>>, <<70206, 70206>>,
      <<70272, 70278>>, <<70280, 70280>>, <<70282, 70285>>, <<70287, 70301>>,
      <<70303, 70312>>, <<70320, 70378>>, <<70384, 70393>>, <<70400, 70403>>,
      <<70405, 70412>>, <<70415, 70416>>, <<70419, 70440>>, <<70442, 70448>>,
      <<70450, 70451>>, <<70453, 70457>>, <<70459, 70468>>, <<70471, 70472>>,
      <<70475, 70477>>, <<70480, 70480>>, <<70487, 70487>>, <<70493, 70499>>,
      <<70502, 70508>>, <<70512, 70516>>, <<70656, 70730>>, <<70736, 70745>>,
      <<70750, 70753>>, <<70784, 70853>>, <<70855, 70855>>, <<70864, 70873>>,
      <<71040, 71093>>, <<71096, 71104>>, <<71128, 71133>>, <<71168, 71232>>,
      <<71236, 71236>>, <<71248, 71257>>, <<71296, 71352>>, <<71360, 71369>>,
      <<71424, 71450>>, <<71453, 71467>>, <<71472, 71481>>, <<71488, 71494>>,
      <<71680, 71738>>, <<71840, 71913>>, <<71935, 71942>>, <<71945, 71945>>,
      <<71948, 71955>>, <<71957, 71958>>, <<71960, 71989>>, <<71991, 71992>>,
      <<71995, 72003>>, <<72016, 72025>>, <<72096, 72103>>, <<72106, 72151>>,
      <<72154, 72161>>, <<72163, 72164>>, <<72192, 72254>>, <<72263, 72263>>,
      <<72272, 72345>>, <<72349, 72349>>, <<72368, 72440>>, <<72704, 72712>>,
      <<72714, 72758>>, <<72760, 72768>>, <<72784, 72793>>, <<72818, 72847>>,
      <<72850, 72871>>, <<72873, 72886>>, <<72960, 72966>>, <<72968, 72969>>,
      <<72971, 73014>>, <<73018, 73018>>, <<73020, 73021>>, <<73023, 73031>>,
      <<73040, 73049>>, <<73056, 73061>>, <<73063, 73064>>, <<73066, 73102>>,
      <<73104, 73105>>, <<73107, 73112>>, <<73120, 73129>>, <<73440, 73462>>,
      <<73648, 73648>>, <<73728, 74649>>, <<74752, 74862>>, <<74880, 75075>>,
      <<77712, 77808>>, <<77824, 78894>>, <<82944, 83526>>, <<92160, 92728>>,
      <<92736, 92766>>, <<92768, 92777>>, <<92784, 92862>>, <<92864, 92873>>,
      <<92880, 92909>>, <<92912, 92916>>, <<92928, 92982>>, <<92992, 92995>>,
      <<93008, 93017>>, <<93027, 93047>>, <<93053, 93071>>, <<93760, 93823>>,
      <<93952, 94026>>, <<94031, 94087>>, <<94095, 94111>>, <<94176, 94177>>,
      <<94179, 94180>>, <<94192, 94193>>, <<94208, 100343>>,
      <<100352, 101589>>, <<101632, 101640>>, <<110576, 110579>>,
      <<110581, 110587>>, <<110589, 110590>>, <<110592, 110882>>,
      <<110928, 110930>>, <<110948, 110951>>, <<110960, 111355>>,
      <<113664, 113770>>, <<113776, 113788>>, <<113792, 113800>>,
      <<113808, 113817>>, <<113821, 113822>>, <<118528, 118573>>,
      <<118576, 118598>>, <<119141, 119145>>, <<119149, 119154>>,
      <<119163, 119170>>, <<119173, 119179>>, <<119210, 119213>>,
      <<119362, 119364>>, <<119808, 119892>>, <<119894, 119964>>,
      <<119966, 119967>>, <<119970, 119970>>, <<119973, 119974>>,
      <<119977, 119980>>, <<119982, 119993>>, <<119995, 119995>>,
      <<119997, 120003>>, <<120005, 120069>>, <<120071, 120074>>,
      <<120077, 120084>>, <<120086, 120092>>, <<120094, 120121>>,
      <<120123, 120126>>, <<120128, 120132>>, <<120134, 120134>>,
      <<120138, 120144>>, <<120146, 120485>>, <<120488, 120512>>,
      <<120514, 120538>>, <<120540, 120570>>, <<120572, 120596>>,
      <<120598, 120628>>, <<120630, 120654>>, <<120656, 120686>>,
      <<120688, 120712>>, <<120714, 120744>>, <<120746, 120770>>,
      <<120772, 120779>>, <<120782, 120831>>, <<121344, 121398>>,
      <<121403, 121452>>, <<121461, 121461>>, <<121476, 121476>>,
      <<121499, 121503>>, <<121505, 121519>>, <<122624, 122654>>,
      <<122880, 122886>>, <<122888, 122904>>, <<122907, 122913>>,
      <<122915, 122916>>, <<122918, 122922>>, <<123136, 123180>>,
      <<123184, 123197>>, <<123200, 123209>>, <<123214, 123214>>,
      <<123536, 123566>>, <<123584, 123641>>, <<124896, 124902>>,
      <<124904, 124907>>, <<124909, 124910>>, <<124912, 124926>>,
      <<124928, 125124>>, <<125136, 125142>>, <<125184, 125259>>,
      <<125264, 125273>>, <<126464, 126467>>, <<126469, 126495>>,
      <<126497, 126498>>, <<126500, 126500>>, <<126503, 126503>>,
      <<126505, 126514>>, <<126516, 126519>>, <<126521, 126521>>,
      <<126523, 126523>>, <<126530, 126530>>, <<126535, 126535>>,
      <<126537, 126537>>, <<126539, 126539>>, <<126541, 126543>>,
      <<126545, 126546>>, <<126548, 126548>>, <<126551, 126551>>,
      <<126553, 126553>>, <<126555, 126555>>, <<126557, 126557>>,
      <<126559, 126559>>, <<126561, 126562>>, <<126564, 126564>>,
      <<126567, 126570>>, <<126572, 126578>>, <<126580, 126583>>,
      <<126585, 126588>>, <<126590, 126590>>, <<126592, 126601>>,
      <<126603, 126619>>, <<126625, 126627>>, <<126629, 126633>>,
      <<126635, 126651>>, <<127280, 127305>>, <<127312, 127337>>,
      <<127344, 127369>>, <<130032, 130041>>, <<131072, 173791>>,
      <<173824, 177976>>, <<177984, 178205>>, <<178208, 183969>>,
      <<183984, 191456>>, <<194560, 195101>>, <<196608, 201546>>,
      <<917760, 917999>>>>

\* Case_Ignorable, as ranges
CaseIgnorableRanges ==
    <<<<39, 39>>, <<46, 46>>, <<58, 58>>, <<94, 94>>, <<96, 96>>,
      <<168, 168>>, <<173, 173>>, <<175, 175>>, <<180, 180>>, <<183, 184>>,
      <<688, 879>>, <<884, 885>>, <<890, 890>>, <<900, 901>>, <<903, 903>>,
      <<1155, 1161>>, <<1369, 1369>>, <<1375, 1375>>, <<1425, 1469>>,
      <<1471, 1471>>, <<1473, 1474>>, <<1476, 1477>>, <<1479, 1479>>,
      <<1524, 1524>>, <<1536, 1541>>, <<1552, 1562>>, <<1564, 1564>>,
      <<1600, 1600>>, <<1611, 1631>>, <<1648, 1648>>, <<1750, 1757>>,
      <<1759, 1768>>, <<1770, 1773>>, <<1807, 1807>>, <<1809, 1809>>,
      <<1840, 1866>>, <<1958, 1968>>, <<2027, 2037>>, <<2042, 2042>>,
      <<2045, 2045>>, <<2070, 2093>>, <<2137, 2139>>, <<2184, 2184>>,
      <<2192, 2193>>, <<2200, 2207>>, <<2249, 2306>>, <<2362, 2362>>,
      <<2364, 2364>>, <<2369, 2376>>, <<2381, 2381>>, <<2385, 2391>>,
      <<2402, 2403>>, <<2417, 2417>>, <<2433, 2433>>, <<2492, 2492>>,
      <<2497, 2500>>, <<2509, 2509>>, <<2530, 2531>>, <<2558, 2558>>,
      <<2561, 2562>>, <<2620, 2620>>, <<2625, 2626>>, <<2631, 2632>>,
      <<2635, 2637>>, <<2641, 2641>>, <<2672, 2673>>, <<2677, 2677>>,
      <<2689, 2690>>, <<2748, 2748>>, <<2753, 2757>>, <<2759, 2760>>,
      <<2765, 2765>>, <<2786, 2787>>, <<2810, 2815>>, <<2817, 2817>>,
      <<2876, 2876>>, <<2879, 2879>>, <<2881, 2884>>, <<2893, 2893>>,
      <<2901, 2902>>, <<2914, 2915>>, <<2946, 2946>>, <<3008, 3008>>,
      <<3021, 3021>>, <<3072, 3072>>, <<3076, 3076>>, <<3132, 3132>>,
      <<3134, 3136>>, <<3142, 3144>>, <<3146, 3149>>, <<3157, 3158>>,
      <<3170, 3171>>, <<3201, 3201>>, <<3260, 3260>>, <<3263, 3263>>,
      <<3270, 3270>>, <<3276, 3277>>, <<3298, 3299>>, <<3328, 3329>>,
      <<3387, 3388>>, <<3393, 3396>>, <<3405, 3405>>, <<3426, 3427>>,
      <<3457, 3457>>, <<3530, 3530>>, <<3538, 3540>>, <<3542, 3542>>,
      <<3633, 3633>>, <<3636, 3642>>, <<3654, 3662>>, <<3761, 3761>>,
      <<3764, 3772>>, <<3782, 3782>>, <<3784, 3789>>, <<3864, 3865>>,
      <<3893, 3893>>, <<3895, 3895>>, <<3897, 3897>>, <<3953, 3966>>,
      <<3968, 3972>>, <<3974, 3975>>, <<3981, 3991>>, <<3993, 4028>>,
      <<4038, 4038>>, <<4141, 4144>>, <<4146, 4151>>, <<4153, 4154>>,
      <<4157, 4158>>, <<4184, 4185>>, <<4190, 4192>>, <<4209, 4212>>,
      <<4226, 4226>>, <<4229, 4230>>, <<4237, 4237>>, <<4253, 4253>>,
      <<4348, 4348>>, <<4957, 4959>>, <<5906, 5908>>, <<5938, 5939>>,
      <<5970, 5971>>, <<6002, 6003>>, <<6068, 6069>>, <<6071, 6077>>,
      <<6086, 6086>>, <<6089, 6099>>, <<6103, 6103>>, <<6109, 6109>>,
      <<6155, 6159>>, <<6211, 6211>>, <<6277, 6278>>, <<6313, 6313>>,
      <<6432, 6434>>, <<6439, 6440>>, <<6450, 6450>>, <<6457, 6459>>,
      <<6679, 6680>>, <<6683, 6683>>, <<6742, 6742>>, <<6744, 6750>>,
      <<6752, 6752>>, <<6754, 6754>>, <<6757, 6764>>, <<6771, 6780>>,
      <<6783, 6783>>, <<6823, 6823>>, <<6832, 6862>>, <<6912, 6915>>,
      <<6964, 6964>>, <<6966, 6970>>, <<6972, 6972>>, <<6978, 6978>>,
      <<7019, 7027>>, <<7040, 7041>>, <<7074, 7077>>, <<7080, 7081>>,
      <<7083, 7085>>, <<7142, 7142>>, <<7144, 7145>>, <<7149, 7149>>,
      <<7151, 7153>>, <<7212, 7219>>, <<7222, 7223>>, <<7288, 7293>>,
      <<7376, 7378>>, <<7380, 7392>>, <<7394, 7400>>, <<7405, 7405>>,
      <<7412, 7412>>, <<7416, 7417>>, <<7468, 7530>>, <<7544, 7544>>,
      <<7579, 7679>>, <<8125, 8125>>, <<8127, 8129>>, <<8141, 8143>>,
      <<8157, 8159>>, <<8173, 8175>>, <<8189, 8190>>, <<8203, 8207>>,
      <<8216, 8217>>, <<8228, 8228>>, <<8231, 8231>>, <<8234, 8238>>,
      <<8288, 8292>>, <<8294, 8303>>, <<8305, 8305>>, <<8319, 8319>>,
      <<8336, 8348>>, <<8400, 8432>>, <<11388, 11389>>, <<11503, 11505>>,
      <<11631, 11631>>, <<11647, 11647>>, <<11744, 11775>>, <<11823, 11823>>,
      <<12293, 12293>>, <<12330, 12333>>, <<12337, 12341>>, <<12347, 12347>>,
      <<12441, 12446>>, <<12540, 12542>>, <<40981, 40981>>, <<42232, 42237>>,
      <<42508, 42508>>, <<42607, 42610>>, <<42612, 42621>>, <<42623, 42623>>,
      <<42652, 42655>>, <<42736, 42737>>, <<42752, 42785>>, <<42864, 42864>>,
      <<42888, 42890>>, <<42994, 42996>>, <<43000, 43001>>, <<43010, 43010>>,
      <<43014, 43014>>, <<43019, 43019>>, <<43045, 43046>>, <<43052, 43052>>,
      <<43204, 43205>>, <<43232, 43249>>, <<43263, 43263>>, <<43302, 43309>>,
      <<43335, 43345>>, <<43392, 43394>>, <<43443, 43443>>, <<43446, 43449>>,
      <<43452, 43453>>, <<43471, 43471>>, <<43493, 43494>>, <<43561, 43566>>,
      <<43569, 43570>>, <<43573, 43574>>, <<43587, 43587>>, <<43596, 43596>>,
      <<43632, 43632>>, <<43644, 43644>>, <<43696, 43696>>, <<43698, 43700>>,
      <<43703, 43704>>, <<43710, 43711>>, <<43713, 43713>>, <<43741, 43741>>,
      <<43756, 43757>>, <<43763, 43764>>, <<43766, 43766>>, <<43867, 43871>>,
      <<43881, 43883>>, <<44005, 44005>>, <<44008, 44008>>, <<44013, 44013>>,
      <<64286, 64286>>, <<64434, 64450>>, <<65024, 65039>>, <<65043, 65043>>,
      <<65056, 65071>>, <<65106, 65106>>, <<65109, 65109>>, <<65279, 65279>>,
      <<65287, 65287>>, <<65294, 65294>>, <<65306, 65306>>, <<65342, 65342>>,
      <<65344, 65344>>, <<65392, 65392>>, <<65438, 65439>>, <<65507, 65507>>,
      <<65529, 65531>>, <<66045, 66045>>, <<66272, 66272>>, <<66422, 66426>>,
      <<67456, 67461>>, <<67463, 67504>>, <<67506, 67514>>, <<68097, 68099>>,
      <<68101, 68102>>, <<68108, 68111>>, <<68152, 68154>>, <<68159, 68159>>,
      <<68325, 68326>>, <<68900, 68903>>, <<69291, 69292>>, <<69446, 69456>>,
      <<69506, 69509>>, <<69633, 69633>>, <<69688, 69702>>, <<69744, 69744>>,
      <<69747, 69748>>, <<69759, 69761>>, <<69811, 69814>>, <<69817, 69818>>,
      <<69821, 69821>>, <<69826, 69826>>, <<69837, 69837>>, <<69888, 69890>>,
      <<69927, 69931>>, <<69933, 69940>>, <<70003, 70003>>, <<70016, 70017>>,
      <<70070, 70078>>, <<70089, 70092>>, <<70095, 70095>>, <<70191, 70193>>,
      <<70196, 70196>>, <<70198, 70199>>, <<70206, 70206>>, <<70367, 70367>>,
      <<70371, 70378>>, <<70400, 70401>>, <<70459, 70460>>, <<70464, 70464>>,
      <<70502, 70508>>, <<70512, 70516>>, <<70712, 70719>>, <<70722, 70724>>,
      <<70726, 70726>>, <<70750, 70750>>, <<70835, 70840>>, <<70842, 70842>>,
      <<70847, 70848>>, <<70850, 70851>>, <<71090, 71093>>, <<71100, 71101>>,
      <<71103, 71104>>, <<71132, 71133>>, <<71219, 71226>>, <<71229, 71229>>,
      <<71231, 71232>>, <<71339, 71339>>, <<71341, 71341>>, <<71344, 71349>>,
      <<71351, 71351>>, <<71453, 71455>>, <<71458, 71461>>, <<71463, 71467>>,
      <<71727, 71735>>, <<71737, 71738>>, <<71995, 71996>>, <<71998, 71998>>,
      <<72003, 72003>>, <<72148, 72151>>, <<72154, 72155>>, <<72160, 72160>>,
      <<72193, 72202>>, <<72243, 72248>>, <<72251, 72254>>, <<72263, 72263>>,
      <<72273, 72278>>, <<72281, 72283>>, <<72330, 72342>>, <<72344, 72345>>,
      <<72752, 72758>>, <<72760, 72765>>, <<72767, 72767>>, <<72850, 72871>>,
      <<72874, 72880>>, <<72882, 72883>>, <<72885, 72886>>, <<73009, 73014>>,
      <<73018, 73018>>, <<73020, 73021>>, <<73023, 73029>>, <<73031, 73031>>,
      <<73104, 73105>>, <<73109, 73109>>, <<73111, 73111>>, <<73459, 73460>>,
      <<78896, 78904>>, <<92912, 92916>>, <<92976, 92982>>, <<92992, 92995>>,
      <<94031, 94031>>, <<94095, 94111>>, <<94176, 94177>>, <<94179, 94180>>,
      <<110576, 110579>>, <<110581, 110587>>, <<110589, 110590>>,
      <<113821, 113822>>, <<113824, 113827>>, <<118528, 118573>>,
      <<118576, 118598>>, <<119143, 119145>>, <<119155, 119170>>,
      <<119173, 119179>>, <<119210, 119213>>, <<119362, 119364>>,
      <<121344, 121398>>, <<121403, 121452>>, <<121461, 121461>>,
      <<121476, 121476>>, <<121499, 121503>>, <<121505, 121519>>,
      <<122880, 122886>>, <<122888, 122904>>, <<122907, 122913>>,
      <<122915, 122916>>, <<122918, 122922>>, <<123184, 123197>>,
      <<123566, 123566>>, <<123628, 123631>>, <<125136, 125142>>,
      <<125252, 125259>>, <<127995, 127999>>, <<917505, 917505>>,
      <<917536, 917631>>, <<917760, 917999>>>>

\* Cased, as ranges
CasedRanges ==
    <<<<65, 90>>, <<97, 122>>, <<170, 170>>, <<181, 181>>, <<186, 186>>,
      <<192, 214>>, <<216, 246>>, <<248, 442>>, <<444, 447>>, <<452, 659>>,
      <<661, 696>>, <<704, 705>>, <<736, 740>>, <<837, 837>>, <<880, 883>>,
      <<886, 887>>, <<890, 893>>, <<895, 895>>, <<902, 902>>, <<904, 906>>,
      <<908, 908>>, <<910, 929>>, <<931, 1013>>, <<1015, 1153>>,
      <<1162, 1327>>, <<1329, 1366>>, <<1376, 1416>>, <<4256, 4293>>,
      <<4295, 4295>>, <<4301, 4301>>, <<4304, 4346>>, <<4349, 4351>>,
      <<5024, 5109>>, <<5112, 5117>>, <<7296, 7304>>, <<7312, 7354>>,
      <<7357, 7359>>, <<7424, 7615>>, <<7680, 7957>>, <<7960, 7965>>,
      <<7968, 8005>>, <<8008, 8013>>, <<8016, 8023>>, <<8025, 8025>>,
      <<8027, 8027>>, <<8029, 8029>>, <<8031, 8061>>, <<8064, 8116>>,
      <<8118, 8124>>, <<8126, 8126>>, <<8130, 8132>>, <<8134, 8140>>,
      <<8144, 8147>>, <<8150, 8155>>, <<8160, 8172>>, <<8178, 8180>>,
      <<8182, 8188>>, <<8305, 8305>>, <<8319, 8319>>, <<8336, 8348>>,
      <<8450, 8450>>, <<8455, 8455>>, <<8458, 8467>>, <<8469, 8469>>,
      <<8473, 8477>>, <<8484, 8484>>, <<8486, 8486>>, <<8488, 8488>>,
      <<8490, 8493>>, <<8495, 8500>>, <<8505, 8505>>, <<8508, 8511>>,
      <<8517, 8521>>, <<8526, 8526>>, <<8544, 8575>>, <<8579, 8580>>,
      <<9398, 9449>>, <<11264, 11492>>, <<11499, 11502>>, <<11506, 11507>>,
      <<11520, 11557>>, <<11559, 11559>>, <<11565, 11565>>, <<42560, 42605>>,
      <<42624, 42653>>, <<42786, 42887>>, <<42891, 42894>>, <<42896, 42954>>,
      <<42960, 42961>>, <<42963, 42963>>, <<42965, 42969>>, <<42997, 42998>>,
      <<43000, 43002>>, <<43824, 43866>>, <<43868, 43880>>, <<43888, 43967>>,
      <<64256, 64262>>, <<64275, 64279>>, <<65313, 65338>>, <<65345, 65370>>,
      <<66560, 66639>>, <<66736, 66771>>, <<66776, 66811>>, <<66928, 66938>>,
      <<66940, 66954>>, <<66956, 66962>>, <<66964, 66965>>, <<66967, 66977>>,
      <<66979, 66993>>, <<66995, 67001>>, <<67003, 67004>>, <<67456, 67456>>,
      <<67459, 67461>>, <<67463, 67504>>, <<67506, 67514>>, <<68736, 68786>>,
      <<68800, 68850>>, <<71840, 71903>>, <<93760, 93823>>,
      <<119808, 119892>>, <<119894, 119964>>, <<119966, 119967>>,
      <<119970, 119970>>, <<119973, 119974>>, <<119977, 119980>>,
      <<119982, 119993>>, <<119995, 119995>>, <<119997, 120003>>,
      <<120005, 120069>>, <<120071, 120074>>, <<120077, 120084>>,
      <<120086, 120092>>, <<120094, 120121>>, <<120123, 120126>>,
      <<120128, 120132>>, <<120134, 120134>>, <<120138, 120144>>,
      <<120146, 120485>>, <<120488, 120512>>, <<120514, 120538>>,
      <<120540, 120570>>, <<120572, 120596>>, <<120598, 120628>>,
      <<120630, 120654>>, <<120656, 120686>>, <<120688, 120712>>,
      <<120714, 120744>>, <<120746, 120770>>, <<120772, 120779>>,
      <<122624, 122633>>, <<122635, 122654>>, <<125184, 125251>>,
      <<127280, 127305>>, <<127312, 127337>>, <<127344, 127369>>>>

\* the simple lowercase mappings above U+007F as <<first, last, step, delta>>:
\* every step-th scalar from first to last maps to itself plus delta
LowerRuns ==
    <<<<192, 214, 1, 32>>, <<216, 222, 1, 32>>, <<256, 302, 2, 1>>,
      <<306, 310, 2, 1>>, <<313, 327, 2, 1>>, <<330, 374, 2, 1>>,
      <<376, 376, 1, -121>>, <<377, 381, 2, 1>>, <<385, 385, 1, 210>>,
      <<386, 388, 2, 1>>, <<390, 390, 1, 206>>, <<391, 391, 1, 1>>,
      <<393, 394, 1, 205>>, <<395, 395, 1, 1>>, <<398, 398, 1, 79>>,
      <<399, 399, 1, 202>>, <<400, 400, 1, 203>>, <<401, 401, 1, 1>>,
      <<403, 403, 1, 205>>, <<404, 404, 1, 207>>, <<406, 406, 1, 211>>,
      <<407, 407, 1, 209>>, <<408, 408, 1, 1>>, <<412, 412, 1, 211>>,
      <<413, 413, 1, 213>>, <<415, 415, 1, 214>>, <<416, 420, 2, 1>>,
      <<422, 422, 1, 218>>, <<423, 423, 1, 1>>, <<425, 425, 1, 218>>,
      <<428, 428, 1, 1>>, <<430, 430, 1, 218>>, <<431, 431, 1, 1>>,
      <<433, 434, 1, 217>>, <<435, 437, 2, 1>>, <<439, 439, 1, 219>>,
      <<440, 440, 1, 1>>, <<444, 444, 1, 1>>, <<452, 452, 1, 2>>,
      <<453, 453, 1, 1>>, <<455, 455, 1, 2>>, <<456, 456, 1, 1>>,
      <<458, 458, 1, 2>>, <<459, 475, 2, 1>>, <<478, 494, 2, 1>>,
      <<497, 497, 1, 2>>, <<498, 500, 2, 1>>, <<502, 502, 1, -97>>,
      <<503, 503, 1, -56>>, <<504, 542, 2, 1>>, <<544, 544, 1, -130>>,
      <<546, 562, 2, 1>>, <<570, 570, 1, 10795>>, <<571, 571, 1, 1>>,
      <<573, 573, 1, -163>>, <<574, 574, 1, 10792>>, <<577, 577, 1, 1>>,
      <<579, 579, 1, -195>>, <<580, 580, 1, 69>>, <<581, 581, 1, 71>>,
      <<582, 590, 2, 1>>, <<880, 882, 2, 1>>, <<886, 886, 1, 1>>,
      <<895, 895, 1, 116>>, <<902, 902, 1, 38>>, <<904, 906, 1, 37>>,
      <<908, 908, 1, 64>>, <<910, 911, 1, 63>>, <<913, 929, 1, 32>>,
      <<932, 939, 1, 32>>, <<975, 975, 1, 8>>, <<984, 1006, 2, 1>>,
      <<1012, 1012, 1, -60>>, <<1015, 1015, 1, 1>>, <<1017, 1017, 1, -7>>,
      <<1018, 1018, 1, 1>>, <<1021, 1023, 1, -130>>, <<1024, 1039, 1, 80>>,
      <<1040, 1071, 1, 32>>, <<1120, 1152, 2, 1>>, <<1162, 1214, 2, 1>>,
      <<1216, 1216, 1, 15>>, <<1217, 1229, 2, 1>>, <<1232, 1326, 2, 1>>,
      <<1329, 1366, 1, 48>>, <<4256, 4293, 1, 7264>>, <<4295, 4295, 1, 7264>>,
      <<4301, 4301, 1, 7264>>, <<5024, 5103, 1, 38864>>, <<5104, 5109, 1, 8>>,
      <<7312, 7354, 1, -3008>>, <<7357, 7359, 1, -3008>>,
      <<7680, 7828, 2, 1>>, <<7838, 7838, 1, -7615>>, <<7840, 7934, 2, 1>>,
      <<7944, 7951, 1, -8>>, <<7960, 7965, 1, -8>>, <<7976, 7983, 1, -8>>,
      <<7992, 7999, 1, -8>>, <<8008, 8013, 1, -8>>, <<8025, 8031, 2, -8>>,
      <<8040, 8047, 1, -8>>, <<8072, 8079, 1, -8>>, <<8088, 8095, 1, -8>>,
      <<8104, 8111, 1, -8>>, <<8120, 8121, 1, -8>>, <<8122, 8123, 1, -74>>,
      <<8124, 8124, 1, -9>>, <<8136, 8139, 1, -86>>, <<8140, 8140, 1, -9>>,
      <<8152, 8153, 1, -8>>, <<8154, 8155, 1, -100>>, <<8168, 8169, 1, -8>>,
      <<8170, 8171, 1, -112>>, <<8172, 8172, 1, -7>>, <<8184, 8185, 1, -128>>,
      <<8186, 8187, 1, -126>>, <<8188, 8188, 1, -9>>,
      <<8486, 8486, 1, -7517>>, <<8490, 8490, 1, -8383>>,
      <<8491, 8491, 1, -8262>>, <<8498, 8498, 1, 28>>, <<8544, 8559, 1, 16>>,
      <<8579, 8579, 1, 1>>, <<9398, 9423, 1, 26>>, <<11264, 11311, 1, 48>>,
      <<11360, 11360, 1, 1>>, <<11362, 11362, 1, -10743>>,
      <<11363, 11363, 1, -3814>>, <<11364, 11364, 1, -10727>>,
      <<11367, 11371, 2, 1>>, <<11373, 11373, 1, -10780>>,
      <<11374, 11374, 1, -10749>>, <<11375, 11375, 1, -10783>>,
      <<11376, 11376, 1, -10782>>, <<11378, 11378, 1, 1>>,
      <<11381, 11381, 1, 1>>, <<11390, 11391, 1, -10815>>,
      <<11392, 11490, 2, 1>>, <<11499, 11501, 2, 1>>, <<11506, 11506, 1, 1>>,
      <<42560, 42604, 2, 1>>, <<42624, 42650, 2, 1>>, <<42786, 42798, 2, 1>>,
      <<42802, 42862, 2, 1>>, <<42873, 42875, 2, 1>>,
      <<42877, 42877, 1, -35332>>, <<42878, 42886, 2, 1>>,
      <<42891, 42891, 1, 1>>, <<42893, 42893, 1, -42280>>,
      <<42896, 42898, 2, 1>>, <<42902, 42920, 2, 1>>,
      <<42922, 42922, 1, -42308>>, <<42923, 42923, 1, -42319>>,
      <<42924, 42924, 1, -42315>>, <<42925, 42925, 1, -42305>>,
      <<42926, 42926, 1, -42308>>, <<42928, 42928, 1, -42258>>,
      <<42929, 42929, 1, -42282>>, <<42930, 42930, 1, -42261>>,
      <<42931, 42931, 1, 928>>, <<42932, 42946, 2, 1>>,
      <<42948, 42948, 1, -48>>, <<42949, 42949, 1, -42307>>,
      <<42950, 42950, 1, -35384>>, <<42951, 42953, 2, 1>>,
      <<42960, 42960, 1, 1>>, <<42966, 42968, 2, 1>>, <<42997, 42997, 1, 1>>,
      <<65313, 65338, 1, 32>>, <<66560, 66599, 1, 40>>,
      <<66736, 66771, 1, 40>>, <<66928, 66938, 1, 39>>,
      <<66940, 66954, 1, 39>>, <<66956, 66962, 1, 39>>,
      <<66964, 66965, 1, 39>>, <<68736, 68786, 1, 64>>,
      <<71840, 71871, 1, 32>>, <<93760, 93791, 1, 32>>,
      <<125184, 125217, 1, 34>>>>

\* binary search: the index in tbl[lo..hi] of the range or run that spans
\* c, or 0
RECURSIVE RangeIndex(_, _, _, _)
RangeIndex(tbl, c, lo, hi) ==
    IF lo > hi THEN 0
    ELSE LET mid == (lo + hi) \div 2 IN
         IF c < tbl[mid][1] THEN RangeIndex(tbl, c, lo, mid - 1)
         ELSE IF c > tbl[mid][2] THEN RangeIndex(tbl, c, mid + 1, hi)
         ELSE mid

InRanges(c, tbl) == RangeIndex(tbl, c, 1, Len(tbl)) # 0

\* a property of the build's tables: the Unicode 14.0 table `base` changed
\* by d, whose add and del are sets of ranges
HasProperty(c, base, d) ==
    \/ InRanges(c, base) /\ ~\E r \in d.del : r[1] <= c /\ c <= r[2]
    \/ \E r \in d.add : r[1] <= c /\ c <= r[2]

\* a build whose tables are those of Unicode 14.0
NoChange == [add |-> {}, del |-> {}]
Unicode14 ==
    [word |-> NoChange, ignorable |-> NoChange, cased |-> NoChange,
     lower |-> << >>]

\* \s and char::is_whitespace: White_Space
IsSpaceChar(c) ==
    c \in (9..13) \cup {32, 133, 160, 5760} \cup (8192..8202)
          \cup {8232, 8233, 8239, 8287, 12288}

\* \w
IsWordChar(c, u) ==
    IF c < 128 THEN c \in (48..57) \cup (65..90) \cup {95} \cup (97..122)
    ELSE HasProperty(c, WordRanges, u.word)

\* char::len_utf8
Utf8Len(c) ==
    IF c < 128 THEN 1 ELSE IF c < 2048 THEN 2 ELSE IF c < 65536 THEN 3 ELSE 4

\* the byte offset of the character offset k of a text, as the regex and
\* str::len report offsets
RECURSIVE ByteOffset(_, _)
ByteOffset(t, k) == IF k = 0 THEN 0 ELSE ByteOffset(t, k - 1) + Utf8Len(t[k])

MinOf(S) == CHOOSE x \in S : \A y \in S : x <= y
MaxOf(S) == CHOOSE x \in S : \A y \in S : x >= y

\* the offset where the run of whitespace starting at offset p ends (\s*)
RECURSIVE SpaceRunEnd(_, _)
SpaceRunEnd(t, p) ==
    IF p = Len(t) \/ ~IsSpaceChar(t[p + 1]) THEN p ELSE SpaceRunEnd(t, p + 1)

\* the offset where the run of [\w\s] starting at offset p ends
RECURSIVE ClassRunEnd(_, _, _)
ClassRunEnd(t, p, u) ==
    IF p = Len(t) \/ ~(IsWordChar(t[p + 1], u) \/ IsSpaceChar(t[p + 1]))
    THEN p
    ELSE ClassRunEnd(t, p + 1, u)

\* the literal mark stands at offset q
MarkAt(t, q, mark) ==
    /\ q + Len(mark) <= Len(t)
    /\ \A j \in 1..Len(mark) : t[q + j] = mark[j]

\* (?m)^ and (?m)$ at an offset
LineStart(t, p) == p = 0 \/ t[p] = 10
LineEnd(t, p) == p = Len(t) \/ t[p + 1] = 10

\* the match of the pattern that starts at character offset p, if there is
\* one, with its start and end as byte offsets (whole.start(), whole.end())
\* and its end as a character offset (upto), where the search goes on.  The
\* mark is not whitespace and not in [\w\s], so the leading \s* and the group
\* take their whole runs; the trailing greedy \s* gives back characters until
\* $ holds, which makes the match end at the last line end of its run.
MatchAt(t, p, rx, u) ==
    LET q == SpaceRunEnd(t, p) IN
    IF ~MarkAt(t, q, rx.mark) THEN NoneOpt ELSE
    LET g0 == q + Len(rx.mark)
        g1 == ClassRunEnd(t, g0, u) IN
    IF g1 = g0 \/ ~MarkAt(t, g1, rx.mark) THEN NoneOpt ELSE
    LET t0 == g1 + Len(rx.mark)
        ends == {e \in t0..SpaceRunEnd(t, t0) : LineEnd(t, e)} IN
    IF ends = {} THEN NoneOpt
    ELSE Some([name |-> Slice(t, g0, g1),
               start |-> ByteOffset(t, p),
               end |-> ByteOffset(t, MaxOf(ends)),
               upto |-> MaxOf(ends)])

\* rx.captures_iter(text): the leftmost match at or after offset s, then the
\* matches after its end
RECURSIVE CapturesIter(_, _, _, _)
CapturesIter(t, s, rx, u) ==
    LET ps == {p \in s..Len(t) :
                 LineStart(t, p) /\ IsSome(MatchAt(t, p, rx, u))} IN
    IF ps = {} THEN << >>
    ELSE LET mt == Unwrap(MatchAt(t, MinOf(ps), rx, u)) IN
         <<mt>> \o CapturesIter(t, mt.upto, rx, u)

\* char::to_lowercase: U+0130 maps to two scalars
LowerChar(c, u) ==
    IF c < 128 THEN <<IF c \in 65..90 THEN c + 32 ELSE c>>
    ELSE IF c \in DOMAIN u.lower THEN u.lower[c]
    ELSE IF c = 304 THEN <<105, 775>>
    ELSE LET runs == LowerRuns
             k == RangeIndex(runs, c, 1, Len(runs)) IN
         IF k = 0 \/ (c - runs[k][1]) % runs[k][3] # 0 THEN <<c>>
         ELSE <<c + runs[k][4]>>

\* the first scalar after the leading Case_Ignorable ones is Cased
RECURSIVE IgnorableThenCased(_, _)
IgnorableThenCased(s, u) ==
    IF s = << >> THEN FALSE
    ELSE IF HasProperty(Head(s), CaseIgnorableRanges, u.ignorable)
         THEN IgnorableThenCased(Tail(s), u)
    ELSE HasProperty(Head(s), CasedRanges, u.cased)

Reversed(s) == [i \in 1..Len(s) |-> s[Len(s) + 1 - i]]

\* a capital sigma (U+03A3) at position i is word-final
FinalSigma(s, i, u) ==
    /\ IgnorableThenCased(Reversed(SubSeq(s, 1, i - 1)), u)
    /\ ~IgnorableThenCased(SubSeq(s, i + 1, Len(s)), u)

\* str::to_lowercase
RECURSIVE LowerFrom(_, _, _)
LowerFrom(s, i, u) ==
    IF i > Len(s) THEN << >>
    ELSE (IF s[i] = 931
          THEN (IF FinalSigma(s, i, u) THEN <<962>> ELSE <<963>>)
          ELSE LowerChar(s[i], u)) \o LowerFrom(s, i + 1, u)

ToLowercase(s, u) == LowerFrom(s, 1, u)

\* str::trim
Trim(s) ==
    LET keep == {i \in 1..Len(s) : ~IsSpaceChar(s[i])} IN
    IF keep = {} THEN << >> ELSE SubSeq(s, MinOf(keep), MaxOf(keep))

\* text.chars().skip(k).take(cnt)
SkipTake(t, k, cnt) ==
    IF k >= Len(t) THEN << >>
    ELSE SubSeq(t, k + 1, IF k + cnt > Len(t) THEN Len(t) ELSE k + cnt)

\* the `end` of section i: the start of the next heading, or text.len() - 1
SectionEnd(t, positions, i) ==
    IF i < Len(positions) THEN positions[i + 1].start
    ELSE ByteOffset(t, Len(t)) - 1

\* split_by_section(rx, text).  start and end are byte offsets, but skip and
\* take count characters.  `end - start` is a usize subtraction: when it
\* would be negative a build with overflow checks panics and a build without
\* them wraps, which makes take() unbounded; `wraps` is the build's choice,
\* and u its Unicode tables.
\* Collecting into the HashMap keeps the last body of a repeated name.
SplitBySection(rx, t, wraps, u) ==
    LET positions == CapturesIter(t, 0, rx, u)
        start(i) == positions[i].end
        cnt(i) == SectionEnd(t, positions, i) - start(i)
        body(i) == Trim(SkipTake(t, start(i) - 1,
                                 IF cnt(i) < 0 THEN Len(t) ELSE cnt(i)))
        key(i) == ToLowercase(positions[i].name, u)
        keys == {key(i) : i \in 1..Len(positions)}
    IN  IF ~wraps /\ \E i \in 1..Len(positions) : cnt(i) < 0
        THEN Panic("attempt to subtract with overflow")
        ELSE Ok([k \in keys |->
                   body(MaxOf({i \in 1..Len(positions) : key(i) = k}))])

(***************************************************************************)
(* SpecSplit: split_by_section applied, with either pattern, to the text   *)
(* of the section scenario and to texts made of a few short lines, by      *)
(* builds with and without overflow checks and with older and newer        *)
(* Unicode tables.                                                         *)
(***************************************************************************)
\* the tables of the regex crate: Unicode 14.0, or a later version in which
\* U+1C89 and U+1C8A are letters
RegexTables == {NoChange, [add |-> {<<7305, 7306>>}, del |-> {}]}

\* the tables of std: Unicode 14.0, or a later version in which U+1C89 and
\* U+1C8A are a case pair
StdTables ==
    {[cased |-> NoChange, lower |-> << >>],
     [cased |-> [add |-> {<<7305, 7306>>}, del |-> {}],
      lower |-> (7305 :> <<7306>>)]}

Builds ==
    {[word |-> r, ignorable |-> NoChange, cased |-> sd.cased,
      lower |-> sd.lower] : r \in RegexTables, sd \in StdTables}

\* "==English==\nfoo\n===Noun===\nbar\n==French==\nbaz\n"
ScenarioText ==
    <<61, 61, 69, 110, 103, 108, 105, 115, 104, 61, 61, 10, 102, 111, 111,
      10, 61, 61, 61, 78, 111, 117, 110, 61, 61, 61, 10, 98, 97, 114, 10,
      61, 61, 70, 114, 101, 110, 99, 104, 61, 61, 10, 98, 97, 122, 10>>

\* "==A==", "==\u{c9}==", "===N===", "xy", "", "== A ==\u{a0}", "\u{e9}" and
\* "==A\u{3a3}\u{1c89}=="
SplitLines ==
    {<<61, 61, 65, 61, 61>>,
     <<61, 61, 65, 931, 7305, 61, 61>>,
     <<61, 61, 201, 61, 61>>,
     <<61, 61, 61, 78, 61, 61, 61>>,
     <<120, 121>>,
     << >>,
     <<61, 61, 32, 65, 32, 61, 61, 160>>,
     <<233>>}

RECURSIVE LinesUpTo(_)
LinesUpTo(k) ==
    IF k = 0 THEN {<< >>}
    ELSE LET shorter == LinesUpTo(k - 1) IN
         shorter \cup {Append(ls, l) : ls \in shorter, l \in SplitLines}

\* the lines, each followed by a line feed
RECURSIVE JoinLines(_)
JoinLines(ls) ==
    IF ls = << >> THEN << >> ELSE Head(ls) \o <<10>> \o JoinLines(Tail(ls))

\* a text with or without the line feed after its last line
SplitTexts ==
    {ScenarioText}
    \cup {JoinLines(ls) : ls \in LinesUpTo(MaxLines)}
    \cup {Slice(JoinLines(ls), 0, Len(JoinLines(ls)) - 1) :
             ls \in LinesUpTo(MaxLines) \ {<< >>}}

InitSplit ==
    /\ pc = "split"
    /\ text \in SplitTexts
    /\ xml = XmlStart /\ fed = 0 /\ current = PageNone /\ n = 0
    /\ block = BlockDefault
    /\ dict_en = NoneOpt /\ dict_de = NoneOpt /\ dictFile = NoneOpt
    /\ files = NoFiles
    /\ wire = NoneOpt /\ loaded = NoneOpt /\ out = Idle /\ refIn = RefZero
    /\ workers = << >>
    /\ appended = << >> /\ ingested = << >> /\ emitted = << >> /\ trained = 0
    /\ commits = 0

SplitLang ==
    /\ pc = "split"
    /\ \E wraps \in BOOLEAN, u \in Builds :
         out' = [op |-> "split", rx |-> LANG_RX,
                 res |-> SplitBySection(LANG_RX, text, wraps, u)]
    /\ UNCHANGED <<pc, text, block, appended, wire, loaded, refIn, workers>>
    /\ UNCHANGED pipelineVars /\ UNCHANGED storeVars

SplitGram ==
    /\ pc = "split"
    /\ \E wraps \in BOOLEAN, u \in Builds :
         out' = [op |-> "split", rx |-> GRAM_RX,
                 res |-> SplitBySection(GRAM_RX, text, wraps, u)]
    /\ UNCHANGED <<pc, text, block, appended, wire, loaded, refIn, workers>>
    /\ UNCHANGED pipelineVars /\ UNCHANGED storeVars

NextSplit == SplitLang \/ SplitGram

SpecSplit == InitSplit /\ [][NextSplit]_vars

\* str::contains
Contains(whole, part) ==
    \E k \in 0..(Len(whole) - Len(part)) :
        SubSeq(whole, k + 1, k + Len(part)) = part

\* C15: Section splitter scenario.  Splitting
\* "==English==\nfoo\n===Noun===\nbar\n==French==\nbaz\n" with the language
\* pattern gives exactly the keys "english" and "french"; the english body
\* contains "foo\n===Noun===\nbar" and the french body contains "baz".
C15_SectionScenario ==
    (text = ScenarioText /\ out.op = "split" /\ out.rx = LANG_RX) =>
        /\ out.res.kind = "Ok"
        /\ DOMAIN out.res.val = {<<101, 110, 103, 108, 105, 115, 104>>,
                                 <<102, 114, 101, 110, 99, 104>>}
        /\ Contains(out.res.val[<<101, 110, 103, 108, 105, 115, 104>>],
                    <<102, 111, 111, 10, 61, 61, 61, 78, 111, 117, 110, 61,
                      61, 61, 10, 98, 97, 114>>)
        /\ Contains(out.res.val[<<102, 114, 101, 110, 99, 104>>],
                    <<98, 97, 122>>)

(***************************************************************************)
(* SpecQuery: `store query` (main.rs:160-193) on a directory that commits  *)
(* have filled.  The handler opens the store and lists the block files;    *)
(* rayon runs one task per path (read_block) and, for a block that was     *)
(* read, one task per entry (entry(n), open, the filter, and the print or  *)
(* the count).  A task runs on any worker that is free, so the tasks of    *)
(* one block interleave with the reads of other blocks.                    *)
(***************************************************************************)
Workers == {1, 2}

\* the `searches` arguments tried: ["x"] and ["~x", "y"]
Searches == {<<<<120>>>>, <<<<126, 120>>, <<121>>>>}

\* workers that decode into one buffer shared by all of them
SharedBuffer(w) == 1

\* block_bytes is a local of each read_block call (blockstore.rs:104)
BufferOf(w) == w

NoResults == [name \in {} |-> Idle]

QueryStart(paths, searches, count) ==
    [searches |-> searches,
     count |-> count,
     todo |-> paths,
     at |-> [w \in Workers |-> "idle"],
     path |-> [w \in Workers |-> << >>],
     bufs |-> [w \in Workers |-> << >>],
     results |-> NoResults,
     tasks |-> {},
     entries |-> NoResults,
     printed |-> << >>,
     counted |-> 0,
     panicked |-> FALSE]

InitQuery == pc = "store" /\ InitCommon

queryFrame ==
    UNCHANGED <<block, appended, wire, loaded, refIn, text, dict_en, dict_de,
                dictFile, files, trained, commits>>

\* Store::new; store.open()?; store.blocks()?  The query is a process of
\* its own: of the run that filled the directory only the files are left.
QStart ==
    /\ pc = "store"
    /\ \E searches \in Searches, count \in BOOLEAN :
         LET r == Open(dictFile) IN
         /\ block' = BlockDefault /\ appended' = << >>
         /\ dict_en' = NoneOpt
         /\ dict_de' = IF r.kind = "Ok" THEN r.val ELSE NoneOpt
         /\ pc' = IF r.kind = "Ok" THEN "query" ELSE "failed"
         /\ out' = IF r.kind = "Ok" THEN [op |-> "blocks", val |-> Blocks(files)]
                   ELSE [op |-> "open", kind |-> r.kind]
         /\ workers' = IF r.kind = "Ok"
                       THEN QueryStart(Blocks(files), searches, count)
                       ELSE workers
    /\ UNCHANGED <<wire, loaded, refIn, text, dictFile, files, trained, commits>>
    /\ UNCHANGED pipelineVars

\* a worker takes a path and decodes the file into its buffer; an error
\* panics (.expect("error reading block"))
QRead(w) ==
    /\ pc = "query" /\ workers.at[w] = "idle"
    /\ \E name \in workers.todo :
         LET bytes == ReadBlockBytes(dict_de, files, name) IN
         IF bytes.kind = "Ok"
         THEN workers' = [workers EXCEPT !.todo = @ \ {name},
                                         !.at[w] = "decoded",
                                         !.path[w] = name,
                                         !.bufs[BufferOf(w)] = bytes.val]
         ELSE workers' = [workers EXCEPT
                             !.todo = @ \ {name},
                             !.results = PutFile(@, name, bytes),
                             !.panicked = TRUE]
    /\ out' = [op |-> "read_block"]
    /\ UNCHANGED pc
    /\ queryFrame /\ UNCHANGED pipelineVars

\* the worker parses its buffer and sets the block's id; read_block returns
\* and its locals are dropped.  The closure returns
\* (0..block.n).into_par_iter(): one task per entry, and the worker is free
QParse(w) ==
    /\ pc = "query" /\ workers.at[w] = "decoded"
    /\ LET r == BlockOfBytes(workers.path[w], workers.bufs[BufferOf(w)]) IN
         workers' = [workers EXCEPT
                        !.at[w] = "idle",
                        !.path[w] = << >>,
                        !.bufs[BufferOf(w)] = << >>,
                        !.results = PutFile(@, workers.path[w], r),
                        !.tasks = IF r.kind = "Ok"
                                  THEN @ \cup {<<workers.path[w], i>> :
                                                  i \in 0..(r.val.n - 1)}
                                  ELSE @,
                        !.panicked = @ \/ r.kind # "Ok"]
    /\ out' = [op |-> "from_bytes"]
    /\ UNCHANGED pc
    /\ queryFrame /\ UNCHANGED pipelineVars

\* block.entry(n).expect("error parsing entry").open()
EntryTask(b, i) ==
    LET e == BlockEntry(b, i) IN
    IF e.kind = "Ok" THEN EntryOpen(e.val) ELSE Panic("error parsing entry")

\* the filter closure: every search has to hold; for a search that starts
\* with '~' the text must not contain the search, '~' included
Filter(searches, txt) ==
    \A k \in 1..Len(searches) :
        IF searches[k] # << >> /\ searches[k][1] = 126
        THEN ~Contains(txt, searches[k])
        ELSE Contains(txt, searches[k])

U32Of(v) == <<v \div Limb, v % Limb>>

\* the line of println!("{}: {}", id, title)
QueryLine(o) ==
    RefDisplay([block_id |-> U32Of(o.ref.block_id),
                entry_id |-> U32Of(o.ref.entry_id)]) \o <<58, 32>> \o o.title

\* a free worker runs the task of one entry: entry(n), open, the filter,
\* then the print (for_each) or the count
QEntry(w) ==
    /\ pc = "query" /\ workers.at[w] = "idle"
    /\ \E task \in workers.tasks :
         LET o == EntryTask(workers.results[task[1]].val, task[2])
             hit == o.kind = "Ok" /\ Filter(workers.searches, o.val.body) IN
         workers' = [workers EXCEPT
                        !.tasks = @ \ {task},
                        !.entries = PutFile(@, task, o),
                        !.printed = IF hit /\ ~workers.count
                                    THEN Append(@, QueryLine(o.val)) ELSE @,
                        !.counted = IF hit /\ workers.count THEN @ + 1 ELSE @,
                        !.panicked = @ \/ o.kind # "Ok"]
    /\ out' = [op |-> "entry"]
    /\ UNCHANGED pc
    /\ queryFrame /\ UNCHANGED pipelineVars

\* every task has run: with --count the number of matches is printed; a
\* panic of a task reaches main here and ends the program
QDone ==
    /\ pc = "query" /\ workers.todo = {} /\ workers.tasks = {}
    /\ \A w \in Workers : workers.at[w] = "idle"
    /\ pc' = IF workers.panicked THEN "aborted" ELSE "done"
    /\ out' = [op |-> "query",
               printed |-> IF workers.panicked \/ ~workers.count
                           THEN workers.printed
                           ELSE <<FmtU32(U32Of(workers.counted))>>]
    /\ UNCHANGED workers
    /\ queryFrame /\ UNCHANGED pipelineVars

\* after a panic the tasks rayon has not started may be left out: the
\* panic reaches main as soon as the running tasks have ended
QAbort ==
    /\ pc = "query" /\ workers.panicked
    /\ workers.todo # {} \/ workers.tasks # {}
    /\ \A w \in Workers : workers.at[w] = "idle"
    /\ pc' = "aborted"
    /\ out' = [op |-> "query", printed |-> workers.printed]
    /\ UNCHANGED workers
    /\ queryFrame /\ UNCHANGED pipelineVars

NextQuery ==
    \/ SAdd \/ SCommit \/ QStart \/ QDone \/ QAbort
    \/ \E w \in Workers : QRead(w) \/ QParse(w) \/ QEntry(w)

SpecQuery == InitQuery /\ [][NextQuery]_vars

\* C19: Parallel reads.  While a store opened for reading is read by
\* parallel workers, no step changes the directory or the in-memory
\* dictionary, and whatever the interleaving every path gets the block that
\* a sequential read_block call on that path returns, and every entry task
\* the entry that a lookup in that block returns.
C19_ParallelReads ==
    [][pc = "query" =>
          /\ dictFile' = dictFile /\ files' = files
          /\ dict_en' = dict_en /\ dict_de' = dict_de
          /\ \A name \in DOMAIN workers'.results :
                workers'.results[name] = ReadBlock(dict_de, files, name)
          /\ \A task \in DOMAIN workers'.entries :
                workers'.entries[task] =
                    EntryTask(ReadBlock(dict_de, files, task[1]).val, task[2])
      ]_vars

\* worker 1 read 1.zst and one of its two entries is printed, the other
\* one waits, while worker 2 is between decoding and parsing 0.zst
C19_Witness ==
    /\ pc = "query"
    /\ workers.at[2] = "decoded" /\ workers.path[2] = BlockFileName(0)
    /\ workers.at[1] = "idle"
    /\ DOMAIN workers.results = {BlockFileName(1)}
    /\ workers.results[BlockFileName(1)].kind = "Ok"
    /\ workers.results[BlockFileName(1)].val.n = 2
    /\ workers.tasks = {<<BlockFileName(1), 0>>}
    /\ workers.printed = << <<49, 47, 49, 58, 32, 97>> >>

(***************************************************************************)
(* SpecPages: `store make` (main.rs:113-151) fed with pages of any shape:  *)
(* each <page> holds up to MaxItems <title> and <text> elements in any     *)
(* order.  The character data of an element names the page it stands in    *)
(* and its position there, so that an entry shows where its parts came     *)
(* from.  xml.items lists the elements closed so far in the open page and  *)
(* `emitted` the lists of the pages already closed.                        *)
(***************************************************************************)
PagesStart == [phase |-> "outside", tfrags |-> << >>, xfrags |-> << >>,
               items |-> << >>]

\* "t" or "x", the digit of the page, the digit of the position in the page
FragOf(letter, page, pos) == <<letter, 48 + page, 48 + pos>>

InitPages ==
    /\ pc = "make" /\ xml = PagesStart
    /\ fed = 0 /\ current = PageNone /\ n = 0
    /\ block = BlockDefault
    /\ dict_en = NoneOpt /\ dict_de = NoneOpt /\ dictFile = NoneOpt
    /\ files = NoFiles
    /\ wire = NoneOpt /\ loaded = NoneOpt /\ out = Idle /\ refIn = RefZero
    /\ text = << >> /\ workers = << >>
    /\ appended = << >> /\ ingested = << >> /\ emitted = << >> /\ trained = 0
    /\ commits = 0

GStartPage ==
    /\ pc = "make" /\ xml.phase = "outside" /\ fed < MaxDocs
    /\ Drive(StartElement("page"), TRUE)
    /\ xml' = [PagesStart EXCEPT !.phase = "page"]
    /\ fed' = fed + 1
    /\ UNCHANGED emitted /\ feedFrame

GStartTitle ==
    /\ pc = "make" /\ xml.phase = "page" /\ Len(xml.items) < MaxItems
    /\ Drive(StartElement("title"), TRUE)
    /\ xml' = [xml EXCEPT !.phase = "title"]
    /\ UNCHANGED <<fed, emitted>> /\ feedFrame

GTitleChars ==
    /\ pc = "make" /\ xml.phase = "title" /\ xml.tfrags = << >>
    /\ LET frag == FragOf(116, fed, Len(xml.items) + 1) IN
         /\ Drive(Characters(frag), TRUE)
         /\ xml' = [xml EXCEPT !.tfrags = <<frag>>]
    /\ UNCHANGED <<fed, emitted>> /\ feedFrame

GEndTitle ==
    /\ pc = "make" /\ xml.phase = "title" /\ xml.tfrags # << >>
    /\ Drive(EndElement("title"), TRUE)
    /\ xml' = [xml EXCEPT
                 !.phase = "page", !.tfrags = << >>,
                 !.items = Append(@, [kind |-> "title", content |-> Join(xml.tfrags)])]
    /\ UNCHANGED <<fed, emitted>> /\ feedFrame

GStartText ==
    /\ pc = "make" /\ xml.phase = "page" /\ Len(xml.items) < MaxItems
    /\ Drive(StartElement("text"), TRUE)
    /\ xml' = [xml EXCEPT !.phase = "text"]
    /\ UNCHANGED <<fed, emitted>> /\ feedFrame

GTextChars ==
    /\ pc = "make" /\ xml.phase = "text" /\ xml.xfrags = << >>
    /\ LET frag == FragOf(120, fed, Len(xml.items) + 1) IN
         /\ Drive(Characters(frag), TRUE)
         /\ xml' = [xml EXCEPT !.xfrags = <<frag>>]
    /\ UNCHANGED <<fed, emitted>> /\ feedFrame

GEndText ==
    /\ pc = "make" /\ xml.phase = "text" /\ xml.xfrags # << >>
    /\ \E trainOk \in BOOLEAN : Drive(EndElement("text"), trainOk)
    /\ xml' = [xml EXCEPT
                 !.phase = "page", !.xfrags = << >>,
                 !.items = Append(@, [kind |-> "text", content |-> Join(xml.xfrags)])]
    /\ UNCHANGED <<fed, emitted>> /\ feedFrame

GEndPage ==
    /\ pc = "make" /\ xml.phase = "page"
    /\ Drive(EndElement("page"), TRUE)
    /\ xml' = PagesStart
    /\ emitted' = Append(emitted, xml.items)
    /\ UNCHANGED fed /\ feedFrame

NextPages ==
    \/ GStartPage \/ GStartTitle \/ GTitleChars \/ GEndTitle
    \/ GStartText \/ GTextChars \/ GEndText \/ GEndPage \/ EndOfStream

SpecPages == InitPages /\ [][NextPages]_vars

\* what a page with the given elements is to deliver: its first title with
\* the first text after it, and nothing when there is no such pair
PageYield(items) ==
    LET ts == {i \in 1..Len(items) : items[i].kind = "title"} IN
    IF ts = {} THEN << >> ELSE
    LET xs == {j \in 1..Len(items) : j > MinOf(ts) /\ items[j].kind = "text"} IN
    IF xs = {} THEN << >>
    ELSE <<[title |-> items[MinOf(ts)].content, body |-> items[MinOf(xs)].content]>>

RECURSIVE PagesYield(_)
PagesYield(pages) ==
    IF pages = << >> THEN << >>
    ELSE PageYield(Head(pages)) \o PagesYield(Tail(pages))

\* C20: Incomplete pages do not leak across page boundaries.  A page without
\* a title, without a text, or with its text only before its title adds no
\* entry, and the title and the text of every entry added come from the same
\* <page> element: a title is never paired with the text of a later page.
C20_NoLeakAcrossPages ==
    /\ \A i \in 1..Len(ingested) :
          ingested[i].title[2] = ingested[i].body[2]
    /\ [i \in 1..Len(ingested) |->
          [title |-> ingested[i].title, body |-> ingested[i].body]]
         = PagesYield(emitted) \o PageYield(xml.items)

C20_Witness ==
    /\ Len(emitted) = 3 /\ Len(ingested) = 1
    /\ Len(emitted[1]) = 2
    /\ emitted[1][1].kind = "text" /\ emitted[1][2].kind = "title"
    /\ Len(emitted[2]) = 1 /\ emitted[2][1].kind = "title"
    /\ Len(emitted[3]) = 2
    /\ emitted[3][1].kind = "title" /\ emitted[3][2].kind = "text"
    /\ ingested[1].title = FragOf(116, 3, 1)
    /\ ingested[1].body = FragOf(120, 3, 2)
====
